---------------------------- MODULE Spec2Model ----------------------------
(***************************************************************************)
(* A model of the Golden Balls rules engine (src/goldenballs/game.py).     *)
(*                                                                         *)
(* Every handler of the engine is an operator from a "world" (one game,    *)
(* the players' current_game references and the state of the random        *)
(* generator) to the world after the call, the value returned and whether  *)
(* the call ended in an exception.  A Python statement sequence is a chain *)
(* of LET definitions w1, w2, ... threading the world through.  When a     *)
(* call raises, the mutations made before the raise stay and Game.on_*     *)
(* does not assign self.state, so the game keeps its old state object.     *)
(*                                                                         *)
(* Values: a player is its id (name and id are one-to-one); a ball is its  *)
(* cash value, the killer ball being 0; a message is the tuple of its      *)
(* message id (the key of MESSAGES) and its format arguments; a Python     *)
(* dict is a function, <<>> being the empty dict; the insertion-ordered    *)
(* dict of votes is the sequence of its (voter, target) items.             *)
(* Game.stats and the states' stats dicts are an audit log that no handler *)
(* reads back; they are left out.  Game.kill and view_state (admin only)   *)
(* are left out as well.                                                   *)
(***************************************************************************)
EXTENDS Integers, Sequences, FiniteSets, TLC

VARIABLES games, current_game, rng

vars == <<games, current_game, rng>>

(***************************************************************************)
(* Bounds of the model.                                                    *)
(***************************************************************************)
\* Players known to the caller: ids 1 .. NumPlayers.
NumPlayers == 5
\* The random generator starts from a seed in 0 .. MaxSeed.
MaxSeed == 1
\* pick is called with every valid ball id once at most MaxChoice balls are
\* left to pick from, and with the first ball only while more are left.
MaxChoice == 3
\* Ball.calculate_total is examined on every list of at most MaxTokens balls
\* with values in TokenValues.
MaxTokens == 3

Players == 1 .. NumPlayers
Seeds == 0 .. MaxSeed
\* Python's None, as a player's current_game
None == 0
\* Python's None, where a message is expected
NoError == <<>>

(***************************************************************************)
(* Program constants.                                                      *)
(***************************************************************************)
PLAYER_COUNT == 4
FourPlayer_SHOWN_COUNT == 2
FourPlayer_HIDDEN_COUNT == 2
FourPlayer_CASH_BALL_COUNT == 12
FourPlayer_KILLER_COUNT == 4
ThreePlayer_SHOWN_COUNT == 2
ThreePlayer_HIDDEN_COUNT == 3
ThreePlayer_CASH_BALL_COUNT == 2
ThreePlayer_KILLER_COUNT == 1
\* BinWinState.Action
BIN == 0
WIN == 1
\* SplitStealState.Action
SPLIT == 0
STEAL == 1

(***************************************************************************)
(* Sequences and dicts.                                                    *)
(***************************************************************************)
Range(s) == {s[i] : i \in DOMAIN s}

\* list.pop(i - 1): the list without its i-th element (1-based here)
RemoveAt(s, i) == [k \in 1 .. Len(s) - 1 |-> IF k < i THEN s[k] ELSE s[k + 1]]

\* list.index(x), 0-based; the caller checks x is in the list
IndexOf(s, x) == (CHOOSE i \in DOMAIN s : s[i] = x /\ \A k \in 1 .. i - 1 : s[k] # x) - 1

\* list.remove(x): the list without the first x
Remove(s, x) == IF x \in Range(s) THEN RemoveAt(s, IndexOf(s, x) + 1) ELSE s

\* d[k] = v
Put(d, k, v) == [x \in DOMAIN d \cup {k} |-> IF x = k THEN v ELSE d[x]]

(***************************************************************************)
(* Balls.                                                                  *)
(***************************************************************************)
\* KillerBall()
KillerBall == 0

\* a killer that rounds halves up
KillerBall_apply_half_up(prize) == (prize + 5) \div 10

\* round(prize / 10): Python 3 rounds halves to the even neighbour
KillerBall_apply(prize) ==
    LET q == prize \div 10
        r == prize % 10
    IN  IF r < 5 THEN q
        ELSE IF r > 5 THEN q + 1
        ELSE IF q % 2 = 0 THEN q ELSE q + 1

CashBall_apply(value, prize) == prize + value

\* ball.apply(prize)
Ball_apply(ball, prize) ==
    IF ball = KillerBall THEN KillerBall_apply(prize) ELSE CashBall_apply(ball, prize)

\* ball.get_cash_value()
get_cash_value(ball) == IF ball = KillerBall THEN 0 ELSE ball

RECURSIVE calculate_total_upto(_, _)
calculate_total_upto(balls, n) ==
    IF n = 0 THEN 0 ELSE Ball_apply(balls[n], calculate_total_upto(balls, n - 1))

\* Ball.calculate_total(balls)
calculate_total(balls) == calculate_total_upto(balls, Len(balls))

RECURSIVE calculate_cash_total_upto(_, _)
calculate_cash_total_upto(balls, n) ==
    IF n = 0 THEN 0 ELSE calculate_cash_total_upto(balls, n - 1) + get_cash_value(balls[n])

\* Ball.calculate_cash_total(balls)
calculate_cash_total(balls) == calculate_cash_total_upto(balls, Len(balls))

\* a pool in which every value comes twice
generate_pool_in_pairs == [i \in 1 .. 100 |-> 10 * ((i + 1) \div 2)]

\* CashBall.generate_pool()
generate_pool ==
    <<    10,    15,    20,    25,    30,    40,    50,    60,
          70,    75,    80,    90,   100,   125,   150,   175,
         200,   225,   250,   275,   300,   325,   350,   375,
         400,   450,   500,   550,   600,   650,   700,   750,
         800,   850,   900,   950,  1000,  1100,  1200,  1250,
        1300,  1400,  1500,  1600,  1700,  1750,  1800,  1900,
        2000,  2250,  2500,  2750,  3000,  3500,  4000,  4500,
        5000,  5500,  6000,  6500,  7000,  7500,  8000,  8500,
        9000,  9500, 10000, 11000, 12000, 13000, 14000, 15000,
       16000, 17000, 18000, 19000, 20000, 21000, 22000, 23000,
       24000, 25000, 26000, 27000, 28000, 29000, 30000, 31000,
       32000, 34000, 35000, 37000, 40000, 45000, 50000, 55000,
       60000, 65000, 70000, 75000 >>

(***************************************************************************)
(* The random module.  Python's generator is a deterministic function of   *)
(* its seed; the model's generator is a linear congruential one, and the   *)
(* seed is the only random input: Init draws it from Seeds.                *)
(***************************************************************************)
NextRandom(x) == (9 * x + 5) % 100

\* randint(a, b) read off the generator state x
randint(x, a, b) == a + (x % (b - a + 1))

\* util.pop_random on generator state x: the element taken and the list left
pop_random(list, x) ==
    LET idx == randint(x, 0, Len(list) - 1)
    IN  [val |-> list[idx + 1], rest |-> RemoveAt(list, idx + 1)]

RECURSIVE pop_random_n(_, _, _, _)
\* [pop_random(list) for _ in range(n)]
pop_random_n(list, x, n, taken) ==
    IF n = 0 THEN [rng |-> x, taken |-> taken, rest |-> list]
    ELSE LET y == NextRandom(x)
             p == pop_random(list, y)
         IN  pop_random_n(p.rest, y, n - 1, Append(taken, p.val))

RECURSIVE shuffle_from(_, _, _)
\* random.shuffle: for i in reversed(range(1, len(x))): j = randbelow(i + 1); swap
shuffle_from(list, x, i) ==
    IF i < 1 THEN [rng |-> x, list |-> list]
    ELSE LET y == NextRandom(x)
             j == randint(y, 0, i)
             swapped == [list EXCEPT ![i + 1] = list[j + 1], ![j + 1] = list[i + 1]]
         IN  shuffle_from(swapped, y, i - 1)

shuffle(list, x) == shuffle_from(list, x, Len(list) - 1)

(***************************************************************************)
(* Results of handlers.                                                    *)
(***************************************************************************)
\* return state, message  (Game.on_* then assigns self.state)
StateRet(w, state, message) ==
    [w |-> [w EXCEPT !.game.state = state], response |-> message, fault |-> FALSE]

\* an exception leaves the handler: self.state is not assigned
Raise(w, exception) == [w |-> w, response |-> <<exception>>, fault |-> TRUE]

\* messages.py, MESSAGES: the ids of the messages the game uses, TRUE for a
\* text with fields to fill in and FALSE for a text without any
MESSAGES ==
    [id \in {"player.err.not_in_game.other", "game.kicked", "game.start",
             "round1_2.announce", "round1_2.hidden", "round1_2.voted",
             "round1_2.vote_results", "round1_2.done", "round1_2.done_early",
             "round3.pick.win", "round3.pick.bin", "round3.picked.win",
             "round3.picked.bin", "round3.win_so_far", "round3.final_bin",
             "round3.final_win", "round4.announce", "round4.action",
             "round4.steal", "round4.split", "round4.only_player"} |-> TRUE]
    @@ [id \in {"ball.err.invalid", "player.err.in_game", "player.err.in_other_game",
                "player.err.not_in_game", "player.err.not_picking", "player.err.voted",
                "player.err.vote_self", "player.err.action_done", "game.join",
                "game.left", "game.cancelled", "game.err.not_joinable",
                "game.err.not_votable", "game.err.not_viewable",
                "game.err.not_pickable", "game.err.not_split_steal",
                "game.start_response", "round1_2.voted_response", "round3.announce",
                "round4.lose", "round4.action_response"} |-> FALSE]

\* get_msg(message_id, **kwargs): the text of the message with its fields
\* filled in; an id MESSAGES does not have gives "[Missing message]", and
\* format() drops the arguments a text has no field for
get_msg(message_id, kwargs) ==
    IF message_id \notin DOMAIN MESSAGES THEN <<"[Missing message]">>
    ELSE IF MESSAGES[message_id] THEN <<message_id>> \o kwargs
    ELSE <<message_id>>

(***************************************************************************)
(* Game: players, outboxes, machine.                                       *)
(***************************************************************************)
\* player.is_busy()
is_busy(w, player) == w.current_game[player] # None

\* an _add_player that writes no result
_add_player_without_result(w, player) ==
    [w EXCEPT !.current_game[player] = w.game.id,
              !.game.players = Append(@, player)]

_add_player(w, player) ==
    [w EXCEPT !.current_game[player] = w.game.id,
              !.game.players = Append(@, player),
              !.game.results = Put(@, player, 0)]

\* a _remove_player that leaves the player's reference to the game
_remove_player_keeps_reference(w, player) ==
    [w EXCEPT !.game.players = Remove(@, player)]

_remove_player(w, player) ==
    [w EXCEPT !.current_game[player] = None,
              !.game.players = Remove(@, player)]

\* a draw that hands out a ball of the machine and leaves it in the machine
_get_machine_ball_left_in(w) ==
    LET y == NextRandom(w.rng)
        p == pop_random(w.game.machine_balls, y)
    IN  [w |-> [w EXCEPT !.rng = y], ball |-> p.val]

_get_machine_ball(w) ==
    LET y == NextRandom(w.rng)
        p == pop_random(w.game.machine_balls, y)
    IN  [w |-> [w EXCEPT !.rng = y, !.game.machine_balls = p.rest], ball |-> p.val]

\* a send that puts the message at the front of the queue
_send_channel_message_in_front(w, msg) ==
    [w EXCEPT !.game.channel_messages = <<msg>> \o @]

_send_channel_message(w, msg) ==
    [w EXCEPT !.game.channel_messages = Append(@, msg)]

\* self.dms is a defaultdict(list)
_send_dm(w, player, msg) ==
    [w EXCEPT !.game.dms =
        Put(@, player, IF player \in DOMAIN @ THEN Append(@[player], msg) ELSE <<msg>>)]

RECURSIVE _send_dms_to_first_seat(_, _, _)
\* a loop that puts every player's message in the queue of the first seat
_send_dms_to_first_seat(w, i, msgs) ==
    IF i > Len(w.game.players) THEN w
    ELSE _send_dms_to_first_seat(_send_dm(w, w.game.players[1], msgs[w.game.players[i]]),
                                 i + 1, msgs)

RECURSIVE _send_dms(_, _, _)
\* for player in players[i..]: self._send_dm(player, msgs[player])
_send_dms(w, i, msgs) ==
    IF i > Len(w.game.players) THEN w
    ELSE _send_dms(_send_dm(w, w.game.players[i], msgs[w.game.players[i]]), i + 1, msgs)

\* the (name, balls) rows of a "player.ball_list" listing, in seat order
ball_list(players, balls) == [i \in DOMAIN players |-> <<players[i], balls[players[i]]>>]

(***************************************************************************)
(* GameState: the default handlers.                                        *)
(***************************************************************************)
WaitingState == [kind |-> "WaitingState"]

\* _require_playing: the error message, or NoError for Python's None
_require_playing(w, player, you) ==
    IF w.current_game[player] # w.game.id
    THEN get_msg(IF you THEN "player.err.not_in_game" ELSE "player.err.not_in_game.other",
                 <<player>>)
    ELSE NoError

_get_leave_msg(player, forced) ==
    IF forced THEN get_msg("game.kicked", <<player>>) ELSE get_msg("game.left", <<>>)

RECURSIVE _remove_all(_, _)
_remove_all(w, players) ==
    IF players = <<>> THEN w ELSE _remove_all(_remove_player(w, Head(players)), Tail(players))

\* a FinishedState that leaves the players where they are
FinishedState_init_keeps_players(w) == [w EXCEPT !.game.finished = TRUE]

\* FinishedState(game): the world after construction; the state is [kind |-> "FinishedState"]
FinishedState_init(w) ==
    [_remove_all(w, w.game.players) EXCEPT !.game.finished = TRUE]

FinishedState == [kind |-> "FinishedState"]

\* a default on_join that seats the player
GameState_on_join_seats(w, player) ==
    StateRet(_add_player(w, player), w.game.state, get_msg("game.join", <<>>))

GameState_on_join(w, player) == StateRet(w, w.game.state, get_msg("game.err.not_joinable", <<>>))

GameState_on_vote(w, player, target) ==
    StateRet(w, w.game.state, get_msg("game.err.not_votable", <<>>))

GameState_on_view_balls(w, player) ==
    StateRet(w, w.game.state, get_msg("game.err.not_viewable", <<>>))

GameState_on_pick(w, player, ball_id) ==
    StateRet(w, w.game.state, get_msg("game.err.not_pickable", <<>>))

GameState_on_split(w, player) ==
    StateRet(w, w.game.state, get_msg("game.err.not_split_steal", <<>>))

GameState_on_steal(w, player) ==
    StateRet(w, w.game.state, get_msg("game.err.not_split_steal", <<>>))

GameState_on_leave(w, player, forced) ==
    LET err == _require_playing(w, player, ~forced)
    IN  IF err # NoError THEN StateRet(w, w.game.state, err)
        ELSE LET w1 == _remove_player(w, player)
             IN  IF Len(w1.game.players) = 0
                 THEN StateRet(FinishedState_init(
                                   _send_channel_message(w1, get_msg("game.cancelled", <<>>))),
                               FinishedState, _get_leave_msg(player, forced))
                 ELSE StateRet(w1, w1.game.state, _get_leave_msg(player, forced))

(***************************************************************************)
(* HiddenShownState: rounds 1 and 2.                                       *)
(***************************************************************************)
RECURSIVE _draw_machine_balls(_, _, _)
\* for _ in range(n): balls.append(self.game._get_machine_ball())
_draw_machine_balls(w, balls, n) ==
    IF n = 0 THEN [w |-> w, balls |-> balls]
    ELSE LET d == _get_machine_ball(w)
         IN  _draw_machine_balls(d.w, Append(balls, d.ball), n - 1)

RECURSIVE _assign_balls_hidden_from_all(_, _, _, _, _, _, _, _)
\* a deal that takes the hidden balls of a player from the balls the shown
\* ones were taken from, the shown ones still among them
_assign_balls_hidden_from_all(players, i, balls, x, shown_count, hidden_count, shown_balls, hidden_balls) ==
    IF i > Len(players)
    THEN [rng |-> x, shown_balls |-> shown_balls, hidden_balls |-> hidden_balls]
    ELSE LET s == pop_random_n(balls, x, shown_count, <<>>)
             h == pop_random_n(balls, s.rng, hidden_count, <<>>)
         IN  _assign_balls_hidden_from_all(players, i + 1, h.rest, h.rng, shown_count, hidden_count,
                                           Put(shown_balls, players[i], s.taken),
                                           Put(hidden_balls, players[i], h.taken))

RECURSIVE _assign_balls(_, _, _, _, _, _, _, _)
\* for player in players[i..]: shown_balls[player] = ..., hidden_balls[player] = ...
_assign_balls(players, i, balls, x, shown_count, hidden_count, shown_balls, hidden_balls) ==
    IF i > Len(players)
    THEN [rng |-> x, shown_balls |-> shown_balls, hidden_balls |-> hidden_balls]
    ELSE LET s == pop_random_n(balls, x, shown_count, <<>>)
             h == pop_random_n(s.rest, s.rng, hidden_count, <<>>)
         IN  _assign_balls(players, i + 1, h.rest, h.rng, shown_count, hidden_count,
                           Put(shown_balls, players[i], s.taken),
                           Put(hidden_balls, players[i], h.taken))

\* the class of the state object of round `number`
HiddenShownKind(number) == IF number = 1 THEN "FourPlayerState" ELSE "ThreePlayerState"

\* HiddenShownState.__init__: the world after construction and the new state
\* object, or the failed assert
HiddenShownState_init(w, number, initial_balls, new_cash_ball_count, new_killer_count, shown_count, hidden_count) ==
    LET d == _draw_machine_balls(w, initial_balls, new_cash_ball_count)
        balls == d.balls \o [k \in 1 .. new_killer_count |-> KillerBall]
        players == d.w.game.players
    IN  IF Len(balls) # (shown_count + hidden_count) * Len(players)
        THEN [w |-> d.w, fault |-> TRUE, exception |-> "AssertionError"]
        ELSE LET a == _assign_balls(players, 1, balls, d.w.rng, shown_count, hidden_count,
                                    <<>>, <<>>)
                 w1 == [d.w EXCEPT !.rng = a.rng]
                 w2 == _send_channel_message(w1,
                           get_msg("round1_2.announce",
                                   <<number, shown_count + hidden_count, hidden_count,
                                     shown_count, ball_list(players, a.shown_balls)>>))
                 w3 == _send_dms(w2, 1,
                           [p \in Range(players) |->
                               get_msg("round1_2.hidden", <<a.hidden_balls[p]>>)])
             IN  [w |-> w3, fault |-> FALSE,
                  state |-> [kind |-> HiddenShownKind(number),
                             number |-> number,
                             shown_balls |-> a.shown_balls,
                             hidden_balls |-> a.hidden_balls,
                             \* _init_votes(self.game.players)
                             vote_candidates |-> Range(players),
                             votes |-> <<>>]]

FourPlayerState_init(w) ==
    HiddenShownState_init(w, 1, <<>>, FourPlayer_CASH_BALL_COUNT, FourPlayer_KILLER_COUNT,
                          FourPlayer_SHOWN_COUNT, FourPlayer_HIDDEN_COUNT)

ThreePlayerState_init(w, initial_balls) ==
    HiddenShownState_init(w, 2, initial_balls, ThreePlayer_CASH_BALL_COUNT,
                          ThreePlayer_KILLER_COUNT, ThreePlayer_SHOWN_COUNT,
                          ThreePlayer_HIDDEN_COUNT)

(***************************************************************************)
(* WaitingState.                                                           *)
(***************************************************************************)
\* an on_join that does not ask whether the player is busy
WaitingState_on_join_any_free_seat(w, player) ==
    IF player \in Range(w.game.players)
    THEN StateRet(w, w.game.state, get_msg("player.err.in_game", <<>>))
    ELSE LET w1 == _add_player(w, player)
         IN  IF Len(w1.game.players) = PLAYER_COUNT
             THEN LET w2 == _send_channel_message(w1,
                                get_msg("game.start", <<w1.game.players>>))
                      s == FourPlayerState_init(w2)
                  IN  IF s.fault THEN Raise(s.w, s.exception)
                      ELSE StateRet(s.w, s.state, get_msg("game.join", <<>>))
             ELSE StateRet(w1, w1.game.state, get_msg("game.join", <<>>))

WaitingState_on_join(w, player) ==
    IF player \in Range(w.game.players)
    THEN StateRet(w, w.game.state, get_msg("player.err.in_game", <<>>))
    ELSE IF is_busy(w, player)
    THEN StateRet(w, w.game.state, get_msg("player.err.in_other_game", <<>>))
    ELSE LET w1 == _add_player(w, player)
         IN  IF Len(w1.game.players) = PLAYER_COUNT
             THEN LET w2 == _send_channel_message(w1,
                                get_msg("game.start", <<w1.game.players>>))
                      s == FourPlayerState_init(w2)
                  IN  IF s.fault THEN Raise(s.w, s.exception)
                      ELSE StateRet(s.w, s.state, get_msg("game.join", <<>>))
             ELSE StateRet(w1, w1.game.state, get_msg("game.join", <<>>))

(***************************************************************************)
(* BinWinState: round 3.                                                   *)
(***************************************************************************)
pick_msg(action) == IF action = BIN THEN "round3.pick.bin" ELSE "round3.pick.win"

picked_msg(action) == IF action = BIN THEN "round3.picked.bin" ELSE "round3.picked.win"

\* self._get_player() raises IndexError unless this holds
_get_player_ok(w) == w.game.state.player_id < Len(w.game.players)

_get_player(w) == w.game.players[w.game.state.player_id + 1]

\* BinWinState._announce, once _get_player is known not to raise
_announce(w) ==
    _send_channel_message(w,
        get_msg(pick_msg(w.game.state.action),
                <<_get_player(w), Len(w.game.state.available_balls)>>))

\* BinWinState.__init__: the world after construction (the announcement is
\* made by the new state object) and the new state object
BinWinState_init(w, initial_balls, first_player) ==
    LET sh == shuffle(initial_balls, w.rng)
        state == [kind |-> "BinWinState",
                  action |-> BIN,
                  player_id |-> IndexOf(w.game.players, first_player),
                  win_balls |-> <<>>,
                  available_balls |-> Append(sh.list, KillerBall)]
        w1 == _send_channel_message([w EXCEPT !.rng = sh.rng],
                                    get_msg("round3.announce", <<>>))
        w2 == _send_channel_message(w1,
                  get_msg(pick_msg(state.action),
                          <<first_player, Len(state.available_balls)>>))
    IN  [w |-> w2, fault |-> FALSE, state |-> state]

(***************************************************************************)
(* HiddenShownState: voting, leaving, the next state.                      *)
(***************************************************************************)
RECURSIVE _get_ball_list_shown_twice(_, _, _)
\* a ball list that takes the shown balls of a player where the hidden
\* ones belong
_get_ball_list_shown_twice(w, i, balls) ==
    IF i > Len(w.game.players) THEN balls
    ELSE LET player == w.game.players[i]
         IN  _get_ball_list_shown_twice(w, i + 1,
                 balls \o w.game.state.shown_balls[player]
                       \o w.game.state.shown_balls[player])

RECURSIVE _get_ball_list_from(_, _, _)
_get_ball_list_from(w, i, balls) ==
    IF i > Len(w.game.players) THEN balls
    ELSE LET player == w.game.players[i]
         IN  _get_ball_list_from(w, i + 1,
                 balls \o w.game.state.shown_balls[player]
                       \o w.game.state.hidden_balls[player])

\* HiddenShownState._get_ball_list: the balls of the players now in the game
_get_ball_list(w) == _get_ball_list_from(w, 1, <<>>)

FourPlayerState_get_next_state(w, balls) == ThreePlayerState_init(w, balls)

\* ThreePlayerState._get_next_state: (cash total, player) tuples sorted in
\* reverse.  Tuples with equal totals are compared on their players, and
\* Player defines no order: TypeError.  (At most two players are left here.)
ThreePlayerState_get_next_state(w, balls) ==
    LET players == w.game.players
        total == [i \in DOMAIN players |->
                     calculate_cash_total(w.game.state.hidden_balls[players[i]]
                                          \o w.game.state.shown_balls[players[i]])]
    IN  IF \E i, j \in DOMAIN players : i < j /\ total[i] = total[j]
        THEN [w |-> w, fault |-> TRUE, exception |-> "TypeError"]
        ELSE BinWinState_init(w, balls,
                 players[CHOOSE i \in DOMAIN players :
                             \A j \in DOMAIN players : total[j] <= total[i]])

_get_next_state(w, balls) ==
    IF w.game.state.number = 1 THEN FourPlayerState_get_next_state(w, balls)
    ELSE ThreePlayerState_get_next_state(w, balls)

\* a _start_next that collects the balls before the loser is removed
_start_next_with_loser_balls(w, loser) ==
    LET w1 == _remove_player(w, loser)
    IN  _get_next_state(w1, _get_ball_list(w))

\* HiddenShownState._start_next: the world and the next state, or the fault
_start_next(w, loser) ==
    LET w1 == _remove_player(w, loser)
    IN  _get_next_state(w1, _get_ball_list(w1))

\* the targets of the votes cast, in the order of their first vote
\* (the keys of Counter(self.votes.values()))
RECURSIVE vote_targets(_, _)
vote_targets(votes, n) ==
    IF n = 0 THEN <<>>
    ELSE LET before == vote_targets(votes, n - 1)
         IN  IF votes[n][2] \in Range(before) THEN before ELSE Append(before, votes[n][2])

vote_count(votes, target) == Cardinality({i \in DOMAIN votes : votes[i][2] = target})

\* losers = [player for player, count in vote_counts.items() if count == max_count]
vote_losers(votes) ==
    LET targets == vote_targets(votes, Len(votes))
        max_count == CHOOSE c \in 0 .. Len(votes) :
                        /\ \E i \in DOMAIN targets : vote_count(votes, targets[i]) = c
                        /\ \A i \in DOMAIN targets : vote_count(votes, targets[i]) <= c
    IN  SelectSeq(targets, LAMBDA t : vote_count(votes, t) = max_count)

\* a _vote_done that breaks a tie by eliminating the first of the tied
_vote_done_first_tied_out(w, response) ==
    LET votes == w.game.state.votes
        w1 == _send_channel_message(w,
                  get_msg("round1_2.vote_results",
                          <<[i \in DOMAIN votes |-> votes[i][2]]>>))
        loser == vote_losers(votes)[1]
        w2 == _send_channel_message(w1,
                  get_msg("round1_2.done",
                          <<loser, ball_list(w1.game.players,
                                             w1.game.state.hidden_balls)>>))
        next == _start_next(w2, loser)
    IN  IF next.fault THEN Raise(next.w, next.exception)
        ELSE StateRet(next.w, next.state, response)

\* HiddenShownState._vote_done: the result of on_vote once the ballot is full
_vote_done(w, response) ==
    LET votes == w.game.state.votes
        w1 == _send_channel_message(w,
                  get_msg("round1_2.vote_results",
                          <<[i \in DOMAIN votes |-> votes[i][2]]>>))
        losers == vote_losers(votes)
    IN  IF Len(losers) = 1
        THEN LET loser == losers[1]
                 w2 == _send_channel_message(w1,
                           get_msg("round1_2.done",
                                   <<loser, ball_list(w1.game.players,
                                                      w1.game.state.hidden_balls)>>))
                 next == _start_next(w2, loser)
             IN  IF next.fault THEN Raise(next.w, next.exception)
                 ELSE StateRet(next.w, next.state, response)
        ELSE LET w2 == _send_channel_message(w1, get_msg("round1_2.tie", <<losers>>))
                 \* self._init_votes(losers)
                 w3 == [w2 EXCEPT !.game.state.vote_candidates = Range(losers),
                                  !.game.state.votes = <<>>]
             IN  StateRet(w3, w3.game.state, response)

\* an on_vote without the check for a vote for oneself
HiddenShownState_on_vote_self_allowed(w, player, target) ==
    IF \E i \in DOMAIN w.game.state.votes : w.game.state.votes[i][1] = player
    THEN StateRet(w, w.game.state, get_msg("player.err.voted", <<>>))
    ELSE IF _require_playing(w, player, TRUE) # NoError
    THEN StateRet(w, w.game.state, _require_playing(w, player, TRUE))
    ELSE IF _require_playing(w, target, FALSE) # NoError
    THEN StateRet(w, w.game.state, _require_playing(w, target, FALSE))
    ELSE IF target \notin w.game.state.vote_candidates
    THEN StateRet(w, w.game.state, get_msg("player.err.cant_vote", <<>>))
    ELSE LET w1 == [w EXCEPT !.game.state.votes = Append(@, <<player, target>>)]
             w2 == _send_channel_message(w1, get_msg("round1_2.voted", <<player>>))
             response == get_msg("round1_2.voted_response", <<>>)
         IN  IF Len(w2.game.state.votes) = Len(w2.game.players)
             THEN _vote_done(w2, response)
             ELSE StateRet(w2, w2.game.state, response)

HiddenShownState_on_vote(w, player, target) ==
    IF \E i \in DOMAIN w.game.state.votes : w.game.state.votes[i][1] = player
    THEN StateRet(w, w.game.state, get_msg("player.err.voted", <<>>))
    ELSE IF player = target
    THEN StateRet(w, w.game.state, get_msg("player.err.vote_self", <<>>))
    ELSE IF _require_playing(w, player, TRUE) # NoError
    THEN StateRet(w, w.game.state, _require_playing(w, player, TRUE))
    ELSE IF _require_playing(w, target, FALSE) # NoError
    THEN StateRet(w, w.game.state, _require_playing(w, target, FALSE))
    ELSE IF target \notin w.game.state.vote_candidates
    THEN StateRet(w, w.game.state, get_msg("player.err.cant_vote", <<>>))
    ELSE LET w1 == [w EXCEPT !.game.state.votes = Append(@, <<player, target>>)]
             w2 == _send_channel_message(w1, get_msg("round1_2.voted", <<player>>))
             response == get_msg("round1_2.voted_response", <<>>)
         IN  IF Len(w2.game.state.votes) = Len(w2.game.players)
             THEN _vote_done(w2, response)
             ELSE StateRet(w2, w2.game.state, response)

\* self.hidden_balls[player] raises KeyError for a player who was dealt nothing
HiddenShownState_on_view_balls(w, player) ==
    IF player \notin DOMAIN w.game.state.hidden_balls
    THEN Raise(w, "KeyError")
    ELSE StateRet(w, w.game.state,
                  get_msg("round1_2.hidden", <<w.game.state.hidden_balls[player]>>))

HiddenShownState_on_leave(w, player, forced) ==
    IF _require_playing(w, player, TRUE) # NoError
    THEN StateRet(w, w.game.state, _require_playing(w, player, TRUE))
    ELSE LET w1 == _send_channel_message(w,
                       get_msg("round1_2.done_early",
                               <<player, ball_list(w.game.players,
                                                   w.game.state.hidden_balls)>>))
             next == _start_next(w1, player)
         IN  IF next.fault THEN Raise(next.w, next.exception)
             ELSE StateRet(next.w, next.state, _get_leave_msg(player, forced))

(***************************************************************************)
(* SplitStealState: round 4.                                               *)
(***************************************************************************)
\* SplitStealState.__init__: the world after construction and the new state
SplitStealState_init(w, initial_balls) ==
    LET prize == calculate_total(initial_balls)
    IN  [w |-> _send_channel_message(w, get_msg("round4.announce", <<prize>>)),
         fault |-> FALSE,
         state |-> [kind |-> "SplitStealState", actions |-> <<>>, prize |-> prize]]

\* a payout loop that stops after the first player
_pay_all_first_only(w, i, prize) ==
    IF i > Len(w.game.players) THEN w
    ELSE [w EXCEPT !.game.results = Put(@, w.game.players[i], prize)]

RECURSIVE _pay_all(_, _, _)
\* for player in players[i..]: self.game.results[player] = prize
_pay_all(w, i, prize) ==
    IF i > Len(w.game.players) THEN w
    ELSE _pay_all([w EXCEPT !.game.results = Put(@, w.game.players[i], prize)], i + 1, prize)

\* a finish that pays nobody
_finish_game_unpaid(w) == FinishedState_init(w)

\* a finish that pays the whole prize to each of two players who split
_finish_game_split_pays_whole(w) ==
    LET state == w.game.state
        players == w.game.players
        steal_count == Cardinality({p \in DOMAIN state.actions : state.actions[p] = STEAL})
        winner == IF Len(players) = 1 THEN players[1]
                  ELSE IF state.actions[players[1]] = STEAL THEN players[1] ELSE players[2]
        paid == [w EXCEPT !.game.results = Put(@, winner, state.prize)]
        w1 == IF Len(players) = 1
              THEN _send_channel_message(paid,
                       get_msg("round4.only_player", <<winner, state.prize>>))
              ELSE IF steal_count = 2
              THEN _send_channel_message(w, get_msg("round4.lose", <<>>))
              ELSE IF steal_count = 1
              THEN _send_channel_message(paid,
                       get_msg("round4.steal", <<winner, state.prize>>))
              ELSE _send_channel_message(_pay_all(w, 1, state.prize),
                       get_msg("round4.split", <<state.prize \div 2>>))
    IN  FinishedState_init(w1)

\* SplitStealState._finish_game: the world once FinishedState(game) is built
_finish_game(w) ==
    LET state == w.game.state
        players == w.game.players
        steal_count == Cardinality({p \in DOMAIN state.actions : state.actions[p] = STEAL})
        winner == IF Len(players) = 1 THEN players[1]
                  ELSE IF state.actions[players[1]] = STEAL THEN players[1] ELSE players[2]
        paid == [w EXCEPT !.game.results = Put(@, winner, state.prize)]
        w1 == IF Len(players) = 1
              THEN _send_channel_message(paid,
                       get_msg("round4.only_player", <<winner, state.prize>>))
              ELSE IF steal_count = 2
              THEN _send_channel_message(w, get_msg("round4.lose", <<>>))
              ELSE IF steal_count = 1
              THEN _send_channel_message(paid,
                       get_msg("round4.steal", <<winner, state.prize>>))
              ELSE _send_channel_message(_pay_all(w, 1, state.prize \div 2),
                       get_msg("round4.split", <<state.prize \div 2>>))
    IN  FinishedState_init(w1)

\* a _handle_action that lets a player choose again
_handle_action_repeat_allowed(w, player, action) ==
    IF _require_playing(w, player, TRUE) # NoError
    THEN StateRet(w, w.game.state, _require_playing(w, player, TRUE))
    ELSE LET w1 == [w EXCEPT !.game.state.actions = Put(@, player, action)]
             w2 == _send_channel_message(w1, get_msg("round4.action", <<player>>))
             response == get_msg("round4.action_response", <<>>)
         IN  IF Cardinality(DOMAIN w2.game.state.actions) = Len(w2.game.players)
             THEN StateRet(_finish_game(w2), FinishedState, response)
             ELSE StateRet(w2, w2.game.state, response)

_handle_action(w, player, action) ==
    IF _require_playing(w, player, TRUE) # NoError
    THEN StateRet(w, w.game.state, _require_playing(w, player, TRUE))
    ELSE IF player \in DOMAIN w.game.state.actions
    THEN StateRet(w, w.game.state, get_msg("player.err.action_done", <<>>))
    ELSE LET w1 == [w EXCEPT !.game.state.actions = Put(@, player, action)]
             w2 == _send_channel_message(w1, get_msg("round4.action", <<player>>))
             response == get_msg("round4.action_response", <<>>)
         IN  IF Cardinality(DOMAIN w2.game.state.actions) = Len(w2.game.players)
             THEN StateRet(_finish_game(w2), FinishedState, response)
             ELSE StateRet(w2, w2.game.state, response)

SplitStealState_on_split(w, player) == _handle_action(w, player, SPLIT)

SplitStealState_on_steal(w, player) == _handle_action(w, player, STEAL)

\* state, msg = super().on_leave(player, forced); then the players are counted
SplitStealState_on_leave(w, player, forced) ==
    LET ret == GameState_on_leave(w, player, forced)
    IN  IF Len(ret.w.game.players) = 1
        THEN StateRet(_finish_game([ret.w EXCEPT !.game.state = w.game.state]),
                      FinishedState, ret.response)
        ELSE ret

(***************************************************************************)
(* BinWinState: picking and leaving.                                       *)
(***************************************************************************)
\* a step to the next action that passes the turn after a bin pick too
_next_action_passes_turn(w) ==
    [w EXCEPT !.game.state.action = IF @ = BIN THEN WIN ELSE BIN,
              !.game.state.player_id = (@ + 1) % Len(w.game.players)]

\* on_pick, "Move to next action"
_next_action(w) ==
    IF w.game.state.action = BIN
    THEN [w EXCEPT !.game.state.action = WIN]
    ELSE [w EXCEPT !.game.state.action = BIN,
                   !.game.state.player_id = (@ + 1) % Len(w.game.players)]

\* the part of on_pick after the checks: the ball at idx is taken
_pick(w, player, idx) ==
    LET state == w.game.state
        ball == state.available_balls[idx + 1]
        w1 == [w EXCEPT !.game.state.available_balls = RemoveAt(@, idx + 1)]
        win_balls == Append(state.win_balls, ball)
        w2 == IF state.action = WIN
              THEN _send_channel_message([w1 EXCEPT !.game.state.win_balls = win_balls],
                       get_msg("round3.win_so_far", <<win_balls, calculate_total(win_balls)>>))
              ELSE w1
        message == get_msg(picked_msg(state.action), <<player, ball>>)
        w3 == _next_action(w2)
        left == w3.game.state.available_balls
    IN  IF Len(left) > 1
        THEN LET w4 == _announce(w3)
             IN  StateRet(w4, w4.game.state, message)
        ELSE LET w4 == _send_channel_message(
                           [w3 EXCEPT !.game.state.available_balls = SubSeq(@, 1, Len(@) - 1)],
                           get_msg("round3.final_bin", <<left[Len(left)]>>))
                 w5 == _send_channel_message(w4,
                           get_msg("round3.final_win", <<w4.game.state.win_balls>>))
                 next == SplitStealState_init(w5, w5.game.state.win_balls)
             IN  StateRet(next.w, next.state, message)

BinWinState_on_pick(w, player, ball_id) ==
    IF _require_playing(w, player, TRUE) # NoError
    THEN StateRet(w, w.game.state, _require_playing(w, player, TRUE))
    ELSE IF ~_get_player_ok(w)
    THEN Raise(w, "IndexError")
    ELSE IF player # _get_player(w)
    THEN StateRet(w, w.game.state, get_msg("player.err.not_picking", <<>>))
    ELSE IF ~(0 <= ball_id - 1 /\ ball_id - 1 < Len(w.game.state.available_balls))
    THEN StateRet(w, w.game.state, get_msg("ball.err.invalid", <<>>))
    ELSE _pick(w, player, ball_id - 1)

\* an on_leave that announces without setting the turn pointer
BinWinState_on_leave_pointer_kept(w, player, forced) ==
    IF player \notin Range(w.game.players)
    THEN Raise(w, "ValueError")
    ELSE LET before == Len(w.game.players)
             idx == IndexOf(w.game.players, player)
             ret == GameState_on_leave(w, player, forced)
             self == w.game.state
         IN  IF before # Len(ret.w.game.players) /\ idx = w.game.state.player_id
             THEN IF Len(ret.w.game.players) <= self.player_id
                  THEN Raise([ret.w EXCEPT !.game.state = self], "IndexError")
                  ELSE LET w1 == _announce([ret.w EXCEPT !.game.state = self])
                       IN  StateRet(w1, w1.game.state, ret.response)
             ELSE ret

\* idx = self.game.players.index(player) raises ValueError for a player not
\* in the list; after super().on_leave the state object itself is changed,
\* whichever state super returned
BinWinState_on_leave(w, player, forced) ==
    IF player \notin Range(w.game.players)
    THEN Raise(w, "ValueError")
    ELSE LET before == Len(w.game.players)
             idx == IndexOf(w.game.players, player)
             ret == GameState_on_leave(w, player, forced)
             self == [w.game.state EXCEPT !.player_id = 0]
         IN  IF before # Len(ret.w.game.players) /\ idx = w.game.state.player_id
             THEN IF Len(ret.w.game.players) = 0
                  THEN Raise([ret.w EXCEPT !.game.state = self], "IndexError")
                  ELSE LET w1 == _announce([ret.w EXCEPT !.game.state = self])
                       IN  StateRet(w1, w1.game.state, ret.response)
             ELSE ret

(***************************************************************************)
(* Game: construction and the calls of its interface.                      *)
(***************************************************************************)
\* Game(host): the world once the game numbered id is constructed
Game_init(cg, x, id, host) ==
    _add_player([game |-> [id |-> id,
                           players |-> <<>>,
                           state |-> WaitingState,
                           channel_messages |-> <<>>,
                           dms |-> <<>>,
                           machine_balls |-> generate_pool,
                           finished |-> FALSE,
                           results |-> <<>>,
                           host |-> host],
                 current_game |-> cg,
                 rng |-> x],
                host)

\* Game.start_game(host) for the game that would be numbered id: whether a
\* game was made, the world with it, and the message
start_game(cg, x, id, host) ==
    IF cg[host] # None
    THEN [made |-> FALSE, w |-> [current_game |-> cg, rng |-> x],
          response |-> get_msg("player.err.in_other_game", <<>>)]
    ELSE [made |-> TRUE, w |-> Game_init(cg, x, id, host),
          response |-> get_msg("game.start_response", <<>>)]

IsHiddenShown(state) == state.kind \in {"FourPlayerState", "ThreePlayerState"}

Game_on_join(w, player) ==
    IF w.game.state.kind = "WaitingState" THEN WaitingState_on_join(w, player)
    ELSE GameState_on_join(w, player)

Game_on_vote(w, player, target) ==
    IF IsHiddenShown(w.game.state) THEN HiddenShownState_on_vote(w, player, target)
    ELSE GameState_on_vote(w, player, target)

Game_on_view_balls(w, player) ==
    IF IsHiddenShown(w.game.state) THEN HiddenShownState_on_view_balls(w, player)
    ELSE GameState_on_view_balls(w, player)

Game_on_pick(w, player, ball_id) ==
    IF w.game.state.kind = "BinWinState" THEN BinWinState_on_pick(w, player, ball_id)
    ELSE GameState_on_pick(w, player, ball_id)

Game_on_split(w, player) ==
    IF w.game.state.kind = "SplitStealState" THEN SplitStealState_on_split(w, player)
    ELSE GameState_on_split(w, player)

Game_on_steal(w, player) ==
    IF w.game.state.kind = "SplitStealState" THEN SplitStealState_on_steal(w, player)
    ELSE GameState_on_steal(w, player)

Game_on_leave(w, player, forced) ==
    IF IsHiddenShown(w.game.state) THEN HiddenShownState_on_leave(w, player, forced)
    ELSE IF w.game.state.kind = "BinWinState" THEN BinWinState_on_leave(w, player, forced)
    ELSE IF w.game.state.kind = "SplitStealState"
    THEN SplitStealState_on_leave(w, player, forced)
    ELSE GameState_on_leave(w, player, forced)

\* Game.get_channel_message: the game left and the value returned
get_channel_message(game) ==
    IF Len(game.channel_messages) > 0
    THEN [game |-> [game EXCEPT !.channel_messages = Tail(@)],
          value |-> <<Head(game.channel_messages)>>]
    ELSE [game |-> game, value |-> <<>>]

get_dm_subjects(game) == DOMAIN game.dms

\* Game.get_dm: reading self.dms[player] makes the entry of a new player
get_dm(game, player) ==
    IF player \notin DOMAIN game.dms
    THEN [game |-> [game EXCEPT !.dms = Put(@, player, <<>>)], value |-> <<>>]
    ELSE IF Len(game.dms[player]) > 0
    THEN [game |-> [game EXCEPT !.dms[player] = Tail(@)],
          value |-> <<Head(game.dms[player])>>]
    ELSE [game |-> game, value |-> <<>>]

is_finished(game) == game.finished

(***************************************************************************)
(* The state machine.  There is one game, numbered 1 and started by        *)
(* player 1.  Players are interchangeable, so the lobby is filled in one   *)
(* order: join is called by the players already in the list and by the     *)
(* lowest-numbered of the first PLAYER_COUNT players who never was in it;  *)
(* the players above PLAYER_COUNT never join and act as strangers.         *)
(***************************************************************************)
TheGame == 1

Host == 1

World(g) == [game |-> games[g], current_game |-> current_game, rng |-> rng]

\* the state after a call that ended as r
Commit(g, r) ==
    /\ games' = [games EXCEPT ![g] = r.w.game]
    /\ current_game' = r.w.current_game
    /\ rng' = r.w.rng

RECURSIVE dm_count(_, _)
dm_count(dms, n) ==
    IF n = 0 THEN 0
    ELSE dm_count(dms, n - 1) + (IF n \in DOMAIN dms THEN Len(dms[n]) ELSE 0)

\* the messages waiting in the outboxes of a game
Queued(game) == Len(game.channel_messages) + dm_count(game.dms, NumPlayers)

\* The caller delivers the queued messages after every call
\* (extension.py, _handle_game_update): a call finds the outboxes empty.
CallAllowed(g) == Queued(games[g]) = 0

JoinCallers(game) ==
    Range(game.players)
        \cup {p \in 1 .. PLAYER_COUNT :
                 /\ p \notin DOMAIN game.results
                 /\ \A q \in 1 .. p - 1 : q \in DOMAIN game.results}

\* the ball ids pick is called with: the invalid ids -1, 0 and one past the
\* end, the first ball, and every ball once at most MaxChoice are left
BallIds(game) ==
    {-1, 0, 1}
        \cup (IF game.state.kind = "BinWinState"
              THEN {Len(game.state.available_balls) + 1}
                       \cup (IF Len(game.state.available_balls) <= MaxChoice
                             THEN 1 .. Len(game.state.available_balls) ELSE {})
              ELSE {})

Init ==
    \E seed \in Seeds :
        LET w == Game_init([p \in Players |-> None], seed, TheGame, Host)
        IN  /\ games = (TheGame :> w.game)
            /\ current_game = w.current_game
            /\ rng = w.rng

Join(g, p) == CallAllowed(g) /\ Commit(g, Game_on_join(World(g), p))

Vote(g, p, t) == CallAllowed(g) /\ Commit(g, Game_on_vote(World(g), p, t))

ViewBalls(g, p) == CallAllowed(g) /\ Commit(g, Game_on_view_balls(World(g), p))

Pick(g, p, b) == CallAllowed(g) /\ Commit(g, Game_on_pick(World(g), p, b))

Split(g, p) == CallAllowed(g) /\ Commit(g, Game_on_split(World(g), p))

Steal(g, p) == CallAllowed(g) /\ Commit(g, Game_on_steal(World(g), p))

Leave(g, p, forced) == CallAllowed(g) /\ Commit(g, Game_on_leave(World(g), p, forced))

\* The caller's delivery loop (extension.py, _flush_message_queue) reads the
\* channel messages until none is left, then the private messages of each
\* subject in turn, in the order the entries were made (the seat order).
GetChannelMessage(g) ==
    /\ games' = [games EXCEPT ![g] = get_channel_message(games[g]).game]
    /\ UNCHANGED <<current_game, rng>>

GetDm(g, p) ==
    /\ games[g].channel_messages = <<>>
    /\ \A q \in get_dm_subjects(games[g]) : q < p => games[g].dms[q] = <<>>
    /\ games' = [games EXCEPT ![g] = get_dm(games[g], p).game]
    /\ UNCHANGED <<current_game, rng>>

Next ==
    \/ \E p \in JoinCallers(games[TheGame]) : Join(TheGame, p)
    \/ \E p, t \in Players : Vote(TheGame, p, t)
    \/ \E p \in Players : ViewBalls(TheGame, p)
    \/ \E p \in Players : \E b \in BallIds(games[TheGame]) : Pick(TheGame, p, b)
    \/ \E p \in Players : Split(TheGame, p)
    \/ \E p \in Players : Steal(TheGame, p)
    \/ \E p \in Players : \E forced \in BOOLEAN : Leave(TheGame, p, forced)
    \/ GetChannelMessage(TheGame)
    \/ \E p \in get_dm_subjects(games[TheGame]) : GetDm(TheGame, p)

Spec == Init /\ [][Next]_vars

(***************************************************************************)
(* The session up to the end of round 2.  A round is dealt, voted in and   *)
(* left before the first pick, and no later call returns to it: the calls  *)
(* of rounds 1 and 2 alone reach every state of Spec that is waiting or in *)
(* a round, and the first state of Bin or Win after it.                    *)
(***************************************************************************)
NextRounds ==
    \/ \E p \in JoinCallers(games[TheGame]) : Join(TheGame, p)
    \/ \E p, t \in Players : Vote(TheGame, p, t)
    \/ \E p \in Players : ViewBalls(TheGame, p)
    \/ \E p \in Players : \E forced \in BOOLEAN : Leave(TheGame, p, forced)
    \/ GetChannelMessage(TheGame)
    \/ \E p \in get_dm_subjects(games[TheGame]) : GetDm(TheGame, p)

SpecRounds == Init /\ [][NextRounds]_vars

(***************************************************************************)
(* Two sessions over one set of players.  No game exists at first; the     *)
(* sessions are started in the order of their numbers, and any player      *)
(* calls any session that exists.  The caller delivers the messages of a   *)
(* call before it takes the next command, so a call finds the outboxes of  *)
(* both sessions empty.  The first session is played to its end, a vote    *)
(* going to one target and a pick taking the first ball; the second is     *)
(* followed while it waits with its host.                                  *)
(***************************************************************************)
Sessions == {TheGame, TheGame + 1}

Quiet == \A g \in DOMAIN games : Queued(games[g]) = 0

\* p has been in some game
Known(p) == \E g \in DOMAIN games : p \in DOMAIN games[g].results

\* Players who never were in a game are interchangeable: of these, the
\* lowest-numbered one makes calls.
Callers == {p \in Players : Known(p) \/ \A q \in 1 .. p - 1 : Known(q)}

\* join of the first session is called as in the one-session machine.  The
\* second session is followed with its host alone: its join is called by the
\* players who are seated somewhere, and is turned down.
JoinCallersTwo(g) ==
    IF g = TheGame THEN JoinCallers(games[g])
    ELSE {p \in Players : current_game[p] # None}

\* the targets p votes for in session g: p, and the lowest-numbered seated
\* candidate other than p
VoteTargetsTwo(g, p) ==
    IF IsHiddenShown(games[g].state)
    THEN LET c == (games[g].state.vote_candidates \cap Range(games[g].players)) \ {p}
         IN  {p} \cup {t \in c : \A u \in c : t <= u}
    ELSE {p}

\* the ball ids pick is called with: an invalid one and the first ball
PickIdsTwo == {0, 1}

InitTwo ==
    \E seed \in Seeds :
        /\ games = <<>>
        /\ current_game = [p \in Players |-> None]
        /\ rng = seed

StartGame(g, host) ==
    /\ g \notin DOMAIN games
    /\ \A k \in Sessions : k < g => k \in DOMAIN games
    /\ Quiet
    /\ LET r == start_game(current_game, rng, g, host)
       IN  IF r.made
           THEN /\ games' = [k \in DOMAIN games \cup {g} |->
                                IF k = g THEN r.w.game ELSE games[k]]
                /\ current_game' = r.w.current_game
                /\ rng' = r.w.rng
           ELSE UNCHANGED vars

NextTwo ==
    \/ \E g \in Sessions : \E host \in Callers : StartGame(g, host)
    \/ \E g \in DOMAIN games : \E p \in JoinCallersTwo(g) : Quiet /\ Join(g, p)
    \/ \E g \in DOMAIN games : \E p \in Callers : \E t \in VoteTargetsTwo(g, p) :
           Quiet /\ Vote(g, p, t)
    \/ \E g \in DOMAIN games : \E p \in Callers : Quiet /\ ViewBalls(g, p)
    \/ \E g \in DOMAIN games : \E p \in Callers : \E b \in PickIdsTwo :
           Quiet /\ Pick(g, p, b)
    \/ \E g \in DOMAIN games : \E p \in Callers : Quiet /\ Split(g, p)
    \/ \E g \in DOMAIN games : \E p \in Callers : Quiet /\ Steal(g, p)
    \/ \E g \in DOMAIN games : \E p \in Callers : \E forced \in BOOLEAN :
           Quiet /\ Leave(g, p, forced)
    \/ \E g \in DOMAIN games : GetChannelMessage(g)
    \/ \E g \in DOMAIN games : \E p \in get_dm_subjects(games[g]) : GetDm(g, p)

SpecTwo == InitTwo /\ [][NextTwo]_vars

(***************************************************************************)
(* A game nobody leaves (src/test.py).  The players keep playing: the      *)
(* caller's delivery loop runs to its end, a ballot that is open gets its  *)
(* votes, the ballots end in a tie finitely often, the player on turn      *)
(* picks, and the finalists choose.  For the calls of the players weak     *)
(* fairness is written out, WF_vars(A) being                               *)
(* []<>~ENABLED <<A>>_vars \/ []<><<A>>_vars, with the state in which the  *)
(* call is due in the place of ENABLED.                                    *)
(***************************************************************************)
NextLive ==
    \/ \E p \in JoinCallers(games[TheGame]) : Join(TheGame, p)
    \/ \E p, t \in Players : Vote(TheGame, p, t)
    \/ \E p \in Players : ViewBalls(TheGame, p)
    \/ \E p \in Players : \E b \in BallIds(games[TheGame]) : Pick(TheGame, p, b)
    \/ \E p \in Players : Split(TheGame, p)
    \/ \E p \in Players : Steal(TheGame, p)
    \/ GetChannelMessage(TheGame)
    \/ \E p \in get_dm_subjects(games[TheGame]) : GetDm(TheGame, p)

\* the ballot of round 1 or 2 is open to a vote: of a seated player who has
\* not voted, for another seated player who is a candidate
VoteDue ==
    /\ CallAllowed(TheGame)
    /\ IsHiddenShown(games[TheGame].state)
    /\ \E p, t \in Range(games[TheGame].players) :
           /\ p # t
           /\ t \in games[TheGame].state.vote_candidates
           /\ \A i \in DOMAIN games[TheGame].state.votes :
                  games[TheGame].state.votes[i][1] # p

\* Bin/Win waits for the pick of the player on turn
PickDue ==
    /\ CallAllowed(TheGame)
    /\ games[TheGame].state.kind = "BinWinState"
    /\ games[TheGame].state.player_id < Len(games[TheGame].players)

\* Split/Steal waits for the choice of a seated player
ChoiceDue ==
    /\ CallAllowed(TheGame)
    /\ games[TheGame].state.kind = "SplitStealState"
    /\ \E p \in Range(games[TheGame].players) : p \notin DOMAIN games[TheGame].state.actions

\* a vote that completes a ballot with a tie: the ballot starts again
TieVote ==
    \E p, t \in Players :
        /\ IsHiddenShown(games[TheGame].state)
        /\ Vote(TheGame, p, t)
        /\ games[TheGame].state.votes # <<>>
        /\ games'[TheGame].state.kind = games[TheGame].state.kind
        /\ games'[TheGame].state.votes = <<>>

Played ==
    /\ WF_vars(GetChannelMessage(TheGame))
    /\ WF_vars(\E p \in get_dm_subjects(games[TheGame]) : GetDm(TheGame, p))
    /\ ([]<>~VoteDue \/ []<><<\E p, t \in Players : Vote(TheGame, p, t)>>_vars)
    /\ <>[][~TieVote]_vars
    /\ ([]<>~PickDue
        \/ []<><<\E p \in Players : \E b \in BallIds(games[TheGame]) : Pick(TheGame, p, b)>>_vars)
    /\ ([]<>~ChoiceDue \/ []<><<\E p \in Players : Split(TheGame, p) \/ Steal(TheGame, p)>>_vars)

SpecLive == Init /\ [][NextLive]_vars /\ Played

(***************************************************************************)
(* Properties.  A property of one call is stated on the state the call is  *)
(* made in: the handler is applied to that state and its result examined.  *)
(***************************************************************************)
Now == World(TheGame)

Seated(w) == Range(w.game.players)

\* the payout of a player who chose mine while the other chose theirs:
\* a split pays s with 2 * s <= prize < 2 * s + 2
IsPayout(amount, mine, theirs, prize) ==
    IF theirs = STEAL /\ mine = STEAL THEN amount = 0
    ELSE IF mine = STEAL THEN amount = prize
    ELSE IF theirs = STEAL THEN amount = 0
    ELSE 2 * amount <= prize /\ prize < 2 * amount + 2

\* C1: in Split/Steal with two seated players, the choice that completes the
\* pair pays as the matrix says (both steal: 0 and 0; one steals: the prize
\* to the stealer and 0 to the other; both split: floor(prize / 2) each) and
\* makes the session Finished in the same call.
C1_SplitStealPayouts ==
    \A p \in Players : \A action \in {SPLIT, STEAL} :
        (/\ CallAllowed(TheGame)
         /\ Now.game.state.kind = "SplitStealState"
         /\ Len(Now.game.players) = 2
         /\ p \in Seated(Now)
         /\ DOMAIN Now.game.state.actions = Seated(Now) \ {p})
        => LET q == CHOOSE q \in Seated(Now) : q # p
               other == Now.game.state.actions[q]
               prize == Now.game.state.prize
               r == IF action = SPLIT THEN Game_on_split(Now, p)
                    ELSE Game_on_steal(Now, p)
           IN  /\ ~r.fault
               /\ r.w.game.state.kind = "FinishedState"
               /\ is_finished(r.w.game)
               /\ IsPayout(r.w.game.results[p], action, other, prize)
               /\ IsPayout(r.w.game.results[q], other, action, prize)

\* a finished session whose last broadcast says that both players split, with
\* the amount of that message in the results of two players
C1_Witness_BothSplit ==
    LET g == games[TheGame]
        n == Len(g.channel_messages)
    IN  /\ g.state.kind = "FinishedState"
        /\ n > 0
        /\ g.channel_messages[n][1] = "round4.split"
        /\ g.channel_messages[n][2] > 0
        /\ Cardinality({p \in DOMAIN g.results :
                            g.results[p] = g.channel_messages[n][2]}) = 2

(***************************************************************************)
(* Voting.                                                                 *)
(***************************************************************************)
HasVoted(w, p) == \E i \in DOMAIN w.game.state.votes : w.game.state.votes[i][1] = p

\* a vote the rules accept: a seated voter without a vote in the ballot, for
\* another seated player who is a candidate
VoteAcceptable(w, p, t) ==
    /\ p \in Seated(w)
    /\ t \in Seated(w)
    /\ p # t
    /\ t \in w.game.state.vote_candidates
    /\ ~HasVoted(w, p)

Tally(ballot, x) == Cardinality({i \in DOMAIN ballot : ballot[i][2] = x})

\* the targets that hold the maximum vote count of a ballot
MaxTargets(ballot) ==
    {x \in Players : /\ Tally(ballot, x) > 0
                     /\ \A y \in Players : Tally(ballot, y) <= Tally(ballot, x)}

\* C2: in a HiddenShown round a vote that leaves a seated player without a
\* vote only joins the ballot (no tally: players, candidates and allocations
\* stay); the vote that completes the ballot with exactly one target at the
\* maximum removes that target and advances in the same call: round 1 to
\* round 2 with 3 seated players, round 2 to Bin/Win with 2 seated players.
C2_TallyWhenAllVoted ==
    \A p, t \in Players :
        (/\ CallAllowed(TheGame)
         /\ IsHiddenShown(Now.game.state)
         /\ VoteAcceptable(Now, p, t))
        => LET r == Game_on_vote(Now, p, t)
               ballot == Append(Now.game.state.votes, <<p, t>>)
           IN  IF Len(ballot) < Len(Now.game.players)
               THEN /\ ~r.fault
                    /\ r.w.game.players = Now.game.players
                    /\ r.w.game.state = [Now.game.state EXCEPT !.votes = ballot]
               ELSE Cardinality(MaxTargets(ballot)) = 1
                    => LET x == CHOOSE x \in MaxTargets(ballot) : TRUE
                       IN  /\ ~r.fault
                           /\ x \notin Seated(r.w)
                           /\ IF Now.game.state.number = 1
                              THEN /\ r.w.game.state.kind = "ThreePlayerState"
                                   /\ Len(r.w.game.players) = 3
                              ELSE /\ r.w.game.state.kind = "BinWinState"
                                   /\ Len(r.w.game.players) = 2

\* C3: a vote that completes a ballot with two or more targets at the
\* maximum eliminates nobody and keeps the round; the ledger is emptied, the
\* candidates become exactly the tied targets, the allocations stay, and
\* every seated player can then cast a vote for each tied target other than
\* themselves.  A vote that completes a ballot (a re-vote included) with one
\* target at the maximum takes that target out of the session.
C3_TieRestartsBallot ==
    \A p, t \in Players :
        (/\ CallAllowed(TheGame)
         /\ IsHiddenShown(Now.game.state)
         /\ VoteAcceptable(Now, p, t)
         /\ Len(Now.game.state.votes) + 1 = Len(Now.game.players))
        => LET r == Game_on_vote(Now, p, t)
               tied == MaxTargets(Append(Now.game.state.votes, <<p, t>>))
           IN  IF Cardinality(tied) >= 2
               THEN /\ ~r.fault
                    /\ r.w.game.players = Now.game.players
                    /\ r.w.current_game = Now.current_game
                    /\ r.w.game.state = [Now.game.state EXCEPT !.votes = <<>>,
                                                               !.vote_candidates = tied]
                    /\ \A q \in Seated(r.w) : \A c \in tied \ {q} :
                           LET again == Game_on_vote(r.w, q, c)
                           IN  /\ ~again.fault
                               /\ again.response = get_msg("round1_2.voted_response", <<>>)
                               /\ again.w.game.state.votes = <<<<q, c>>>>
               ELSE \A x \in tied : /\ x \notin Seated(r.w)
                                    /\ r.w.current_game[x] = None
                                    /\ Len(r.w.game.players) = Len(Now.game.players) - 1

\* a ballot has just ended in a tie between some of the seated players
\* only: the ledger is empty and the candidates are fewer than the seats
C3_Witness_TiedSubset ==
    LET g == games[TheGame]
    IN  /\ IsHiddenShown(g.state)
        /\ g.state.votes = <<>>
        /\ Cardinality(g.state.vote_candidates) = 2
        /\ g.state.vote_candidates \subseteq Range(g.players)
        /\ Len(g.players) = PLAYER_COUNT
        /\ Len(g.channel_messages) = 3
        /\ g.channel_messages[2][1] = "round1_2.vote_results"

(***************************************************************************)
(* Bin or Win.                                                             *)
(***************************************************************************)
\* the balls Bin or Win starts with when two finalists come out of round 2
FinalPool == 2 * (ThreePlayer_SHOWN_COUNT + ThreePlayer_HIDDEN_COUNT) + 1

\* C4: in Bin/Win with two seated players the picks made so far are bin,
\* win, bin, win, ...: the pending action is bin after an even number of
\* picks and win after an odd number, and the win-list holds one ball for
\* every two picks.  Only the pick of the player on turn with a valid index
\* is accepted; a bin pick takes the ball out, adds nothing to the win-list
\* and leaves the turn with the picker, who wins next; a win pick appends
\* the picked ball to the end of the win-list and passes the turn to the
\* other player, who bins next.
C4_BinWinPattern ==
    (/\ CallAllowed(TheGame)
     /\ Now.game.state.kind = "BinWinState"
     /\ Len(Now.game.players) = 2)
    => LET st == Now.game.state
           taken == FinalPool - Len(st.available_balls)
       IN  /\ st.player_id \in {0, 1}
           /\ st.action = (IF taken % 2 = 0 THEN BIN ELSE WIN)
           /\ Len(st.win_balls) = taken \div 2
           /\ \A p \in Players : \A b \in BallIds(Now.game) :
                  LET r == Game_on_pick(Now, p, b)
                      after == r.w.game.state
                  IN  /\ ~r.fault
                      /\ IF p = _get_player(Now) /\ b \in 1 .. Len(st.available_balls)
                         THEN IF st.action = BIN
                              THEN /\ after.kind = "BinWinState"
                                   /\ after.available_balls = RemoveAt(st.available_balls, b)
                                   /\ after.win_balls = st.win_balls
                                   /\ after.action = WIN
                                   /\ _get_player(r.w) = p
                              ELSE IF Len(st.available_balls) > 2
                              THEN /\ after.kind = "BinWinState"
                                   /\ after.available_balls = RemoveAt(st.available_balls, b)
                                   /\ after.win_balls =
                                          Append(st.win_balls, st.available_balls[b])
                                   /\ after.action = BIN
                                   /\ _get_player(r.w) \in Seated(Now) \ {p}
                              ELSE /\ after.kind = "SplitStealState"
                                   /\ after.prize = calculate_total(
                                          Append(st.win_balls, st.available_balls[b]))
                         ELSE r.w = Now

\* seven picks into Bin/Win with both finalists seated: three balls are won
\* and the picker who has just binned is about to win
C4_Witness_SevenPicks ==
    /\ Now.game.state.kind = "BinWinState"
    /\ Len(Now.game.players) = 2
    /\ Len(Now.game.state.win_balls) = 3
    /\ Now.game.state.action = WIN
    /\ Len(Now.game.channel_messages) = 1
    /\ Now.game.channel_messages[1][1] = "round3.pick.win"

(***************************************************************************)
(* Rejections and faults.                                                  *)
(***************************************************************************)
\* the responses that turn a call down: the error texts of messages.py, and
\* the text get_msg gives for the id of the non-candidate error
IsRejection(response) ==
    /\ response # <<>>
    /\ response[1] \in {"ball.err.invalid", "player.err.in_game",
                        "player.err.in_other_game", "player.err.not_in_game",
                        "player.err.not_in_game.other", "player.err.not_picking",
                        "player.err.voted", "player.err.vote_self",
                        "player.err.action_done", "game.err.not_joinable",
                        "game.err.not_votable", "game.err.not_viewable",
                        "game.err.not_pickable", "game.err.not_split_steal",
                        "[Missing message]"}

\* a call that was turned down left everything as it was
RejectedUnchanged(r) == (~r.fault /\ IsRejection(r.response)) => r.w = Now

\* C5: in every state, a join, vote, view, pick, split, steal or leave that
\* is answered with a rejection leaves the whole session (state variant,
\* players, ledger, candidates, allocations, pool, win-list, turn, choices,
\* machine pool, results, finished flag, both queues) and the players'
\* membership as they were.
C5_RejectionChangesNothing ==
    CallAllowed(TheGame)
    => \A p \in Players :
           /\ RejectedUnchanged(Game_on_join(Now, p))
           /\ \A t \in Players : RejectedUnchanged(Game_on_vote(Now, p, t))
           /\ RejectedUnchanged(Game_on_view_balls(Now, p))
           /\ \A b \in BallIds(Now.game) : RejectedUnchanged(Game_on_pick(Now, p, b))
           /\ RejectedUnchanged(Game_on_split(Now, p))
           /\ RejectedUnchanged(Game_on_steal(Now, p))
           /\ \A forced \in BOOLEAN : RejectedUnchanged(Game_on_leave(Now, p, forced))

\* C6: no call by a player who is not seated in the session (never joined,
\* eliminated, or gone) ends in a fault, whatever the state.
C6_NoFaultForOutsiders ==
    CallAllowed(TheGame)
    => \A p \in Players \ Seated(Now) :
           /\ ~Game_on_join(Now, p).fault
           /\ \A t \in Players : ~Game_on_vote(Now, p, t).fault
           /\ ~Game_on_view_balls(Now, p).fault
           /\ \A b \in BallIds(Now.game) : ~Game_on_pick(Now, p, b).fault
           /\ ~Game_on_split(Now, p).fault
           /\ ~Game_on_steal(Now, p).fault
           /\ \A forced \in BOOLEAN : ~Game_on_leave(Now, p, forced).fault

(***************************************************************************)
(* Eliminations and the leftover pool.                                     *)
(***************************************************************************)
Count(balls, v) == Cardinality({i \in DOMAIN balls : balls[i] = v})

SubBag(a, b) == \A v \in Range(a) : Count(a, v) <= Count(b, v)

SameBag(a, b) == SubBag(a, b) /\ SubBag(b, a)

\* the shown and hidden balls a round gave to a player
Tokens(state, p) == state.shown_balls[p] \o state.hidden_balls[p]

RECURSIVE AllTokens(_, _)
AllTokens(state, players) ==
    IF players = <<>> THEN <<>>
    ELSE Tokens(state, Head(players)) \o AllTokens(state, Tail(players))

\* the balls in play in a state: dealt out in a round, to pick from in Bin/Win
TokensInPlay(w) ==
    IF IsHiddenShown(w.game.state) THEN AllTokens(w.game.state, w.game.players)
    ELSE w.game.state.available_balls

\* the balls a call added to those in play: the machine balls drawn and the
\* killers of the state it made
FreshTokens(r) ==
    LET left == Range(r.w.game.machine_balls)
    IN  SelectSeq(Now.game.machine_balls, LAMBDA v : v \notin left)
            \o (IF IsHiddenShown(r.w.game.state)
                THEN [i \in 1 .. ThreePlayer_KILLER_COUNT |-> KillerBall]
                ELSE <<KillerBall>>)

\* the call that ended as r eliminated x: x's balls are in play afterwards
LoserTokensCarried(r, x) ==
    ~r.fault => SubBag(Tokens(Now.game.state, x), TokensInPlay(r.w))

\* the call that ended as r eliminated x: the balls in play afterwards are
\* those of the players still seated and the fresh ones, and no cash ball of
\* x is among them
LoserTokensDropped(r, x) ==
    ~r.fault
    => LET after == TokensInPlay(r.w)
           before == AllTokens(Now.game.state, r.w.game.players) \o FreshTokens(r)
       IN  /\ x \notin Seated(r.w)
           /\ SameBag(after, before)
           /\ \A v \in Range(Tokens(Now.game.state, x)) :
                  v # KillerBall => v \notin Range(after)

\* P(r, x) for every call that eliminates a player x from the round: a
\* leave of x, or the vote that completes a ballot with x alone at the
\* maximum
Eliminations(P(_, _)) ==
    \A p \in Seated(Now) :
        /\ \A forced \in BOOLEAN : P(Game_on_leave(Now, p, forced), p)
        /\ \A t \in Players :
               LET ballot == Append(Now.game.state.votes, <<p, t>>)
               IN  (/\ VoteAcceptable(Now, p, t)
                    /\ Len(ballot) = Len(Now.game.players)
                    /\ Cardinality(MaxTargets(ballot)) = 1)
                   => P(Game_on_vote(Now, p, t), CHOOSE x \in MaxTargets(ballot) : TRUE)

RECURSIVE CashOnly(_)
\* the cash-only total of a list of balls: a killer counts 0
CashOnly(balls) ==
    IF balls = <<>> THEN 0
    ELSE (IF Head(balls) = KillerBall THEN 0 ELSE Head(balls)) + CashOnly(Tail(balls))

\* the call that ended as r eliminated x from round 2 and left two
\* finalists: Bin/Win has begun, and the finalist with the higher cash-only
\* total, or the one seated earlier when the totals are equal, picks first
FirstPickerRight(r, x) ==
    LET finalists == Remove(Now.game.players, x)
        first == CashOnly(Tokens(Now.game.state, finalists[1]))
        second == CashOnly(Tokens(Now.game.state, finalists[2]))
    IN  /\ ~r.fault
        /\ r.w.game.state.kind = "BinWinState"
        /\ r.w.game.players = finalists
        /\ _get_player_ok(r.w)
        /\ _get_player(r.w) = (IF first >= second THEN finalists[1] ELSE finalists[2])

\* C8: when round 2 with three seated players loses one of them, Bin/Win is
\* entered without a fault and its first picker is the finalist with the
\* higher cash-only total of shown and hidden balls, the finalist seated
\* earlier when the two totals are equal.
C8_FirstPicker ==
    (/\ CallAllowed(TheGame)
     /\ Now.game.state.kind = "ThreePlayerState"
     /\ Len(Now.game.players) = 3)
    => Eliminations(FirstPickerRight)

\* a call that opens Bin/Win opens it with FinalPool balls, no ball won yet
\* and a bin pick pending
OpensWithFinalPool(r) ==
    (~r.fault /\ r.w.game.state.kind = "BinWinState")
    => /\ Len(r.w.game.state.available_balls) = FinalPool
       /\ r.w.game.state.win_balls = <<>>
       /\ r.w.game.state.action = BIN

\* C9: Bin/Win always starts with 11 balls.  Every accepted pick removes one
\* ball, so that the balls left and the picks made add up to 11; the pick
\* made with two balls left is the 10th: in that call the last ball is binned
\* as well, Split/Steal begins, and the win-list handed over is the 5 balls
\* of the win picks in pick order.  A pick after that is rejected as not
\* applicable.
C9_ElevenBallsTenPicks ==
    CallAllowed(TheGame)
    => /\ IsHiddenShown(Now.game.state)
          => \A p \in Players :
                 /\ \A t \in Players : OpensWithFinalPool(Game_on_vote(Now, p, t))
                 /\ \A forced \in BOOLEAN :
                        OpensWithFinalPool(Game_on_leave(Now, p, forced))
       /\ Now.game.state.kind = "BinWinState"
          => LET st == Now.game.state
             IN  /\ Len(st.available_balls) + 2 * Len(st.win_balls)
                        + (IF st.action = WIN THEN 1 ELSE 0) = FinalPool
                 /\ Len(st.available_balls) >= 2
                 /\ \A p \in Players : \A b \in BallIds(Now.game) :
                        LET r == Game_on_pick(Now, p, b)
                            after == r.w.game.state
                            queue == r.w.game.channel_messages
                        IN  (~r.fault /\ ~IsRejection(r.response))
                            => IF Len(st.available_balls) > 2
                               THEN /\ after.kind = "BinWinState"
                                    /\ after.available_balls =
                                           RemoveAt(st.available_balls, b)
                               ELSE LET won == Append(st.win_balls, st.available_balls[b])
                                    IN  /\ after.kind = "SplitStealState"
                                        /\ Len(won) = 5
                                        /\ after.prize = calculate_total(won)
                                        /\ queue[Len(queue) - 1] =
                                               get_msg("round3.final_win", <<won>>)
       /\ Now.game.state.kind \in {"SplitStealState", "FinishedState"}
          => \A p \in Players : \A b \in BallIds(Now.game) :
                 LET r == Game_on_pick(Now, p, b)
                 IN  /\ ~r.fault
                     /\ r.response = get_msg("game.err.not_pickable", <<>>)
                     /\ r.w = Now

\* the player whose turn it is, if the turn pointer names a seat
OnTurn(w, p) == _get_player_ok(w) /\ _get_player(w) = p

\* C10: in Bin/Win a pick by a seated player who is not on turn, or with an
\* index outside 1 .. (number of balls left), is rejected and leaves the
\* pool, the win-list, the pending action, the turn pointer and both queues
\* as they were.
C10_BadPickRejected ==
    (CallAllowed(TheGame) /\ Now.game.state.kind = "BinWinState")
    => \A p \in Seated(Now) : \A b \in BallIds(Now.game) :
           (~OnTurn(Now, p) \/ b \notin 1 .. Len(Now.game.state.available_balls))
           => LET r == Game_on_pick(Now, p, b)
              IN  /\ ~r.fault
                  /\ IsRejection(r.response)
                  /\ r.w.game.state = Now.game.state
                  /\ r.w.game.channel_messages = Now.game.channel_messages
                  /\ r.w.game.dms = Now.game.dms

(***************************************************************************)
(* The vote checks.                                                        *)
(***************************************************************************)
\* C11: in a HiddenShown round a vote is accepted only from a seated voter
\* without a vote in the ballot and for another seated player who is a
\* candidate; every other vote (a second vote, a vote for oneself, for a
\* player who is not seated or not a candidate) is rejected and leaves the
\* ledger, the candidates and both queues as they were.  So the ledger holds
\* at most one vote of each player and no vote of a player for themselves.
C11_VoteChecks ==
    IsHiddenShown(Now.game.state)
    => LET votes == Now.game.state.votes
       IN  /\ \A i, j \in DOMAIN votes : votes[i][1] = votes[j][1] => i = j
           /\ \A i \in DOMAIN votes : votes[i][1] # votes[i][2]
           /\ CallAllowed(TheGame)
              => \A p, t \in Players :
                     LET r == Game_on_vote(Now, p, t)
                     IN  IF VoteAcceptable(Now, p, t)
                         THEN ~IsRejection(r.response)
                         ELSE /\ ~r.fault
                              /\ IsRejection(r.response)
                              /\ r.w.game.state = Now.game.state
                              /\ r.w.game.channel_messages = Now.game.channel_messages
                              /\ r.w.game.dms = Now.game.dms

\* a ballot restarted after a tie holds one vote: a seated player who has
\* not voted is turned down for a seated target who is no candidate, and the
\* voter is turned down for a second vote
C11_Witness_RevoteUnderway ==
    /\ CallAllowed(TheGame)
    /\ IsHiddenShown(Now.game.state)
    /\ Len(Now.game.state.votes) = 1
    /\ \E p, t \in Seated(Now) :
           /\ p # t
           /\ ~HasVoted(Now, p)
           /\ t \notin Now.game.state.vote_candidates
           /\ IsRejection(Game_on_vote(Now, p, t).response)
    /\ \E p \in Seated(Now) : \E t \in Now.game.state.vote_candidates \ {p} :
           /\ HasVoted(Now, p)
           /\ Game_on_vote(Now, p, t).response = get_msg("player.err.voted", <<>>)

(***************************************************************************)
(* Leaving a round.                                                        *)
(***************************************************************************)
\* the world in which every seated player has voted and x alone holds the
\* maximum: everyone votes for x, and x for somebody else
BallotAgainst(w, x) ==
    LET players == w.game.players
        other == CHOOSE q \in Seated(w) : q # x
    IN  [w EXCEPT !.game.state.votes =
            [i \in DOMAIN players |->
                <<players[i], IF players[i] = x THEN other ELSE x>>]]

\* C12: when a seated player leaves a HiddenShown round, whatever votes are
\* in the ledger, the player is out at once and the round advances in the
\* same call (round 1 to round 2 with 3 seated players, round 2 to Bin/Win
\* with 2 seated players); the hidden balls are put on the broadcast queue,
\* and the next state is built from the pool that a vote against the same
\* player would have left.
C12_LeaveEliminatesAtOnce ==
    (CallAllowed(TheGame) /\ IsHiddenShown(Now.game.state))
    => \A p \in Seated(Now) : \A forced \in BOOLEAN :
           LET r == Game_on_leave(Now, p, forced)
               voted == _vote_done(BallotAgainst(Now, p), <<>>)
           IN  /\ ~r.fault
               /\ p \notin Seated(r.w)
               /\ r.w.current_game[p] = None
               /\ IF Now.game.state.number = 1
                  THEN /\ r.w.game.state.kind = "ThreePlayerState"
                       /\ Len(r.w.game.players) = 3
                  ELSE /\ r.w.game.state.kind = "BinWinState"
                       /\ Len(r.w.game.players) = 2
               /\ r.w.game.channel_messages[1] =
                      get_msg("round1_2.done_early",
                              <<p, ball_list(Now.game.players, Now.game.state.hidden_balls)>>)
               /\ ~voted.fault
               /\ r.w.game.players = voted.w.game.players
               /\ r.w.game.state = voted.w.game.state
               /\ r.w.game.machine_balls = voted.w.game.machine_balls

(***************************************************************************)
(* Leaving Split or Steal.                                                 *)
(***************************************************************************)
\* C13: in Split/Steal with two seated players, a leave of one of them,
\* whether or not anybody has chosen and whatever was chosen, pays the full
\* prize to the player who stays and 0 to the one who leaves, and finishes
\* the session in the same call.
C13_LeaverForfeits ==
    (/\ CallAllowed(TheGame)
     /\ Now.game.state.kind = "SplitStealState"
     /\ Len(Now.game.players) = 2)
    => \A p \in Seated(Now) : \A forced \in BOOLEAN :
           LET r == Game_on_leave(Now, p, forced)
               q == CHOOSE q \in Seated(Now) : q # p
           IN  /\ ~r.fault
               /\ r.w.game.results[q] = Now.game.state.prize
               /\ r.w.game.results[p] = 0
               /\ is_finished(r.w.game)
               /\ r.w.game.state.kind = "FinishedState"

\* two finalists play for a prize and one of them has chosen to steal: when
\* the stealer leaves, the prize goes to the other finalist
C13_Witness_StealerLeaves ==
    /\ CallAllowed(TheGame)
    /\ Now.game.state.kind = "SplitStealState"
    /\ Len(Now.game.players) = 2
    /\ Now.game.state.prize > 0
    /\ \E p, q \in Seated(Now) :
           /\ p # q
           /\ DOMAIN Now.game.state.actions = {p}
           /\ Now.game.state.actions[p] = STEAL
           /\ Game_on_leave(Now, p, FALSE).w.game.results[q] = Now.game.state.prize
           /\ Game_on_leave(Now, p, FALSE).w.game.finished

\* C14: Split/Steal never waits for the choice of a single seated player:
\* when the last pick of Bin/Win is made with one finalist seated, the
\* session is resolved in that call (the finalist is paid the full prize and
\* the session is Finished), so Split/Steal is never seen with one player.
C14_SingleFinalistResolved ==
    /\ Now.game.state.kind = "SplitStealState" => Len(Now.game.players) # 1
    /\ (/\ CallAllowed(TheGame)
        /\ Now.game.state.kind = "BinWinState"
        /\ Len(Now.game.players) = 1
        /\ Len(Now.game.state.available_balls) = 2)
       => \A p \in Seated(Now) : \A b \in 1 .. 2 :
              LET r == Game_on_pick(Now, p, b)
              IN  (~r.fault /\ ~IsRejection(r.response))
                  => /\ r.w.game.state.kind = "FinishedState"
                     /\ is_finished(r.w.game)
                     /\ r.w.game.results[p] =
                            calculate_total(Append(Now.game.state.win_balls,
                                                   Now.game.state.available_balls[b]))

(***************************************************************************)
(* The last player leaves.                                                 *)
(***************************************************************************)
\* C15: in Waiting, Bin/Win and Split/Steal, the leave of the only seated
\* player ends without a fault, puts the cancellation on the broadcast
\* queue, and leaves the session Finished: the state is the Finished state
\* and is_finished() is true.
C15_LastLeaveCancels ==
    (/\ CallAllowed(TheGame)
     /\ Now.game.state.kind \in {"WaitingState", "BinWinState", "SplitStealState"}
     /\ Len(Now.game.players) = 1)
    => \A p \in Seated(Now) : \A forced \in BOOLEAN :
           LET r == Game_on_leave(Now, p, forced)
           IN  /\ ~r.fault
               /\ get_msg("game.cancelled", <<>>) \in Range(r.w.game.channel_messages)
               /\ r.w.game.state.kind = "FinishedState"
               /\ is_finished(r.w.game)
               /\ r.w.game.players = <<>>

\* C16: in every state, a leave asked for a player who is not seated is
\* rejected and changes nothing; in Split/Steal with one seated player who
\* has not chosen, it settles nothing: no payout is written and the session
\* is not finished.
C16_OutsiderLeaveRejected ==
    CallAllowed(TheGame)
    => \A p \in Players \ Seated(Now) : \A forced \in BOOLEAN :
           LET r == Game_on_leave(Now, p, forced)
           IN  /\ ~r.fault
               /\ IsRejection(r.response)
               /\ r.w = Now
               /\ (/\ Now.game.state.kind = "SplitStealState"
                   /\ Len(Now.game.players) = 1
                   /\ Now.game.state.actions = <<>>)
                  => /\ r.w.game.results = Now.game.results
                     /\ ~is_finished(r.w.game)
                     /\ r.w.game.state.kind = "SplitStealState"

(***************************************************************************)
(* The results.                                                            *)
(***************************************************************************)
\* two finalists are seated and p is the one who has not chosen yet
ResolvesPair(w, p) ==
    /\ w.game.state.kind = "SplitStealState"
    /\ Len(w.game.players) = 2
    /\ p \in Seated(w)
    /\ DOMAIN w.game.state.actions = Seated(w) \ {p}

TurnedDown(r) == ~r.fault /\ IsRejection(r.response) /\ r.w = Now

\* every call of the interface is turned down
AllTurnedDown ==
    \A p \in Players :
        /\ TurnedDown(Game_on_join(Now, p))
        /\ \A t \in Players : TurnedDown(Game_on_vote(Now, p, t))
        /\ TurnedDown(Game_on_view_balls(Now, p))
        /\ \A b \in BallIds(Now.game) : TurnedDown(Game_on_pick(Now, p, b))
        /\ TurnedDown(Game_on_split(Now, p))
        /\ TurnedDown(Game_on_steal(Now, p))
        /\ \A forced \in BOOLEAN : TurnedDown(Game_on_leave(Now, p, forced))

\* C18: Finished is terminal.  In the Finished state nobody is seated, no
\* player refers to the session, the finished flag is set and every join,
\* vote, view, pick, split, steal and leave is rejected; once the flag is
\* set it stays set and the results stay as they are, and the Finished state
\* is never left.
C18_FinishedIsTerminal ==
    /\ [](Now.game.state.kind = "FinishedState"
          => /\ Now.game.players = <<>>
             /\ \A p \in Players : current_game[p] # TheGame
             /\ is_finished(Now.game)
             /\ AllTurnedDown)
    /\ [][/\ is_finished(games[TheGame])
             => /\ is_finished(games'[TheGame])
                /\ games'[TheGame].results = games[TheGame].results
          /\ games[TheGame].state.kind = "FinishedState"
             => games'[TheGame].state = games[TheGame].state]_vars

\* a session that was resolved with a payout, its queues read to the end:
\* it is open to further calls
C18_Witness_ResolvedAndRead ==
    /\ Now.game.state.kind = "FinishedState"
    /\ CallAllowed(TheGame)
    /\ \E p \in DOMAIN Now.game.results : Now.game.results[p] > 0

(***************************************************************************)
(* Two sessions.                                                           *)
(***************************************************************************)
\* what a call on one session may not touch: the membership of the players
\* seated in another session
OthersKept(g, r) ==
    \A h \in DOMAIN games \ {g} : \A q \in Range(games[h].players) :
        r.w.current_game[q] = h

\* C19: with two sessions over one set of players, whatever calls are made
\* on them, a player's current_game is session g exactly when the player is
\* in g's player list, where no player is twice, so nobody is seated in both
\* sessions; start_game makes a session exactly for a host who is in none;
\* and a call on one session changes nothing of the other: every step
\* changes one session at most, and no call takes a player of the other
\* session out of it.
C19_SessionsShareNoPlayer ==
    /\ [](/\ \A p \in Players : current_game[p] \in {None} \cup DOMAIN games
          /\ \A g \in DOMAIN games :
                 LET players == games[g].players
                 IN  /\ \A i, j \in DOMAIN players : players[i] = players[j] => i = j
                     /\ \A p \in Players : current_game[p] = g <=> p \in Range(players)
          /\ \A g \in Sessions \ DOMAIN games : \A host \in Players :
                 LET r == start_game(current_game, rng, g, host)
                 IN  /\ r.made <=> current_game[host] = None
                     /\ r.w.current_game = IF r.made THEN [current_game EXCEPT ![host] = g]
                                           ELSE current_game
          /\ Quiet
             => \A g \in DOMAIN games : \A p \in Players :
                    /\ OthersKept(g, Game_on_join(World(g), p))
                    /\ \A t \in Players : OthersKept(g, Game_on_vote(World(g), p, t))
                    /\ OthersKept(g, Game_on_view_balls(World(g), p))
                    /\ \A b \in BallIds(games[g]) : OthersKept(g, Game_on_pick(World(g), p, b))
                    /\ OthersKept(g, Game_on_split(World(g), p))
                    /\ OthersKept(g, Game_on_steal(World(g), p))
                    /\ \A forced \in BOOLEAN :
                           OthersKept(g, Game_on_leave(World(g), p, forced)))
    /\ [][\A g, h \in DOMAIN games :
              (g # h /\ games'[g] # games[g]) => games'[h] = games[h]]_vars

\* the first session is in its second round or later, and the second
\* session is hosted by a player who went out of the first, while a seated
\* player of the first is turned down by the second
C19_Witness_LoserHostsSecond ==
    /\ DOMAIN games = Sessions
    /\ Quiet
    /\ games[TheGame].state.kind \in {"ThreePlayerState", "BinWinState", "SplitStealState"}
    /\ games[TheGame + 1].state.kind = "WaitingState"
    /\ \E p \in Range(games[TheGame + 1].players) : p \in DOMAIN games[TheGame].results
    /\ \E p \in Range(games[TheGame].players) :
           Game_on_join(World(TheGame + 1), p).response
               = get_msg("player.err.in_other_game", <<>>)

\* C20: in Waiting, a join of a player who is seated in this session or in
\* another one is rejected and changes nothing; any other join puts the
\* player at the end of the player list, and it starts the game exactly when
\* it fills the 4th seat: that join broadcasts the start announcement and
\* enters HiddenShown round 1 in the same call, while a join to fewer seats
\* leaves the session waiting and broadcasts nothing.
C20_JoinWhileWaiting ==
    \A g \in DOMAIN games :
        games[g].state.kind = "WaitingState"
        => /\ Len(games[g].players) < PLAYER_COUNT
           /\ Quiet
              => \A p \in Players :
                     LET players == games[g].players
                         r == Game_on_join(World(g), p)
                     IN  IF p \in Range(players) \/ current_game[p] # None
                         THEN /\ ~r.fault
                              /\ IsRejection(r.response)
                              /\ r.w = World(g)
                         ELSE /\ ~r.fault
                              /\ ~IsRejection(r.response)
                              /\ r.w.game.players = Append(players, p)
                              /\ r.w.current_game = [current_game EXCEPT ![p] = g]
                              /\ IF Len(players) + 1 = PLAYER_COUNT
                                 THEN /\ r.w.game.state.kind = "FourPlayerState"
                                      /\ r.w.game.state.number = 1
                                      /\ r.w.game.channel_messages[1] =
                                             get_msg("game.start", <<Append(players, p)>>)
                                 ELSE /\ r.w.game.state = WaitingState
                                      /\ r.w.game.channel_messages = <<>>

\* the first session waits with three players seated: a player who sits in
\* the second session is turned down, and a player who sits nowhere takes
\* the 4th seat and starts round 1
C20_Witness_FourthSeat ==
    /\ DOMAIN games = Sessions
    /\ Quiet
    /\ games[TheGame].state.kind = "WaitingState"
    /\ Len(games[TheGame].players) = PLAYER_COUNT - 1
    /\ \E p \in Players :
           /\ current_game[p] = TheGame + 1
           /\ Game_on_join(World(TheGame), p).response
                  = get_msg("player.err.in_other_game", <<>>)
    /\ \E p \in Players :
           /\ current_game[p] = None
           /\ Game_on_join(World(TheGame), p).w.game.state.kind = "FourPlayerState"

(***************************************************************************)
(* Split/Steal: one choice per player.                                     *)
(***************************************************************************)
\* the call that chooses action
Choose(w, p, action) == IF action = SPLIT THEN Game_on_split(w, p) ELSE Game_on_steal(w, p)

\* C21: in Split/Steal, the first split or steal call of a seated player is
\* recorded, and a later split or steal call of that player is rejected and
\* leaves the recorded choices (and everything else) as they were; the call
\* resolves the session exactly when, with the choice recorded, there are as
\* many recorded choices as seated players, and not before.
C21_OneChoiceEach ==
    (CallAllowed(TheGame) /\ Now.game.state.kind = "SplitStealState")
    => \A p \in Seated(Now) : \A action \in {SPLIT, STEAL} :
           LET recorded == Now.game.state.actions
               r == Choose(Now, p, action)
           IN  /\ ~r.fault
               /\ IF p \in DOMAIN recorded
                  THEN IsRejection(r.response) /\ r.w = Now
                  ELSE /\ ~IsRejection(r.response)
                       /\ IF Cardinality(DOMAIN recorded) + 1 = Len(Now.game.players)
                          THEN /\ r.w.game.state = FinishedState
                               /\ is_finished(r.w.game)
                          ELSE /\ r.w.game.state.kind = "SplitStealState"
                               /\ r.w.game.state.actions = Put(recorded, p, action)
                               /\ r.w.game.players = Now.game.players
                               /\ ~is_finished(r.w.game)

\* Split/Steal with two seated players, one of whom has chosen: the other's
\* choice is awaited
C21_Witness_OneHasChosen ==
    /\ CallAllowed(TheGame)
    /\ Now.game.state.kind = "SplitStealState"
    /\ Len(Now.game.players) = 2
    /\ \E p \in Seated(Now) : DOMAIN Now.game.state.actions = {p}

(***************************************************************************)
(* The deal of a round.                                                    *)
(***************************************************************************)
\* the state of r.w is a round just dealt: n seated players, each with shown
\* shown and hidden hidden balls, killers killer balls among them in all
Dealt(r, n, shown, hidden, killers) ==
    /\ ~r.fault
    /\ IsHiddenShown(r.w.game.state)
    /\ Len(r.w.game.players) = n
    /\ Len(TokensInPlay(r.w)) = n * (shown + hidden)
    /\ Count(TokensInPlay(r.w), KillerBall) = killers
    /\ \A p \in Seated(r.w) :
           /\ Len(r.w.game.state.shown_balls[p]) = shown
           /\ Len(r.w.game.state.hidden_balls[p]) = hidden

\* the call that ended as r eliminated a player from round 1: round 2 is
\* dealt to the 3 players left, from their 12 balls, 2 new cash balls and 1
\* new killer
RoundTwoDealt(r) ==
    LET leftover == AllTokens(Now.game.state, r.w.game.players)
        fresh == FreshTokens(r)
    IN  /\ ~r.fault
        /\ r.w.game.state.kind = "ThreePlayerState"
        /\ Len(leftover) = 12
        /\ Len(fresh) = 3
        /\ Count(fresh, KillerBall) = 1
        /\ SameBag(TokensInPlay(r.w), leftover \o fresh)
        /\ Dealt(r, 3, 2, 3, Count(leftover, KillerBall) + 1)

\* the call that ended as r did not fail the count check of a round, and
\* dealt round 2 if it took a player out of round 1
RoundBuilt(r) ==
    /\ r.fault => r.response # <<"AssertionError">>
    /\ (Now.game.state.kind = "FourPlayerState" /\ r.w.game.players # Now.game.players)
       => RoundTwoDealt(r)

\* C22: the count check of a round's construction fails in no reachable
\* state.  The join that fills the fourth seat deals round 1 with 12 cash
\* balls and 4 killers, 16 balls for 4 players with 2 shown and 2 hidden
\* each; an elimination from round 1, by vote or by leave, deals round 2
\* with the 12 balls left, 2 new cash balls and 1 new killer, 15 balls for 3
\* players with 2 shown and 3 hidden each.
C22_RoundsDealtWhole ==
    CallAllowed(TheGame)
    => /\ Now.game.state.kind = "FourPlayerState" => Len(Now.game.players) = 4
       /\ \A p \in Players :
              /\ LET r == Game_on_join(Now, p)
                 IN  /\ r.fault => r.response # <<"AssertionError">>
                     /\ (/\ Now.game.state.kind = "WaitingState"
                         /\ Len(Now.game.players) = PLAYER_COUNT - 1
                         /\ p \notin Seated(Now)
                         /\ ~is_busy(Now, p))
                        => /\ r.w.game.state.kind = "FourPlayerState"
                           /\ Dealt(r, 4, 2, 2, 4)
                           /\ Len(TokensInPlay(r.w)) = 16
              /\ \A t \in Players : RoundBuilt(Game_on_vote(Now, p, t))
              /\ \A forced \in BOOLEAN :
                     LET r == Game_on_leave(Now, p, forced)
                     IN  /\ RoundBuilt(r)
                         /\ (Now.game.state.kind = "FourPlayerState" /\ p \in Seated(Now))
                            => r.w.game.players # Now.game.players

\* round 2 has just been dealt after a leave: 3 players hold 15 balls
C22_Witness_RoundTwoAfterLeave ==
    LET g == games[TheGame]
    IN  /\ g.state.kind = "ThreePlayerState"
        /\ g.state.votes = <<>>
        /\ Len(g.players) = 3
        /\ Len(TokensInPlay(Now)) = 15
        /\ Len(g.channel_messages) = 2
        /\ g.channel_messages[1][1] = "round1_2.done_early"

(***************************************************************************)
(* The prize total.                                                        *)
(***************************************************************************)
\* ball values to examine calculate_total on: the killer, cash that brings
\* a running total to a tie of round(), and cash that does not
TokenValues == {KillerBall, 5, 10, 15, 25, 35, 50, 100}

TokenLists == UNION {[1 .. n -> TokenValues] : n \in 0 .. MaxTokens}

\* the nearest integer to t / 10, the even one of the two when t / 10 lies
\* half way between them
NearestTenth(t) ==
    CHOOSE r \in 0 .. t :
        LET d == IF 10 * r >= t THEN 10 * r - t ELSE t - 10 * r
        IN  d <= 5 /\ (d = 5 => r % 2 = 0)

RECURSIVE FoldLeft(_, _)
\* the fold of balls from the left, total being the running total
FoldLeft(balls, total) ==
    IF balls = <<>> THEN total
    ELSE FoldLeft(Tail(balls),
                  IF Head(balls) = KillerBall THEN NearestTenth(total)
                  ELSE total + Head(balls))

\* b is a with two of its balls swapped
IsSwapOf(a, b) ==
    /\ Len(a) = Len(b)
    /\ \E i, j \in DOMAIN a : b = [a EXCEPT ![i] = a[j], ![j] = a[i]]

\* calculate_total on the lists of TokenLists
TotalsAsFolded ==
    /\ \A balls \in TokenLists :
           /\ calculate_total(balls) = FoldLeft(balls, 0)
           /\ calculate_total(balls) >= 0
    /\ calculate_total(<<25, KillerBall>>) = 2
    /\ calculate_total(<<35, KillerBall>>) = 4
    /\ calculate_total(<<15, KillerBall>>) = 2
    /\ calculate_total(<<5, KillerBall>>) = 0
    /\ calculate_total(<<100, KillerBall>>) = 10
    /\ calculate_total(<<100, 50, KillerBall>>) = 15
    /\ \E a, b \in TokenLists : IsSwapOf(a, b) /\ calculate_total(a) # calculate_total(b)

\* the win-list once the ball at ball_id is picked
WinListAfter(w, ball_id) ==
    IF w.game.state.action = WIN
    THEN Append(w.game.state.win_balls, w.game.state.available_balls[ball_id])
    ELSE w.game.state.win_balls

\* C23: calculate_total folds the balls from the left, starting from 0: a
\* cash ball adds its value, a killer replaces the running total t by t / 10
\* rounded to the nearest integer, a tie going to the even one (25 to 2, 35
\* to 4, 15 to 2, 5 to 0); [100, K] gives 10 and [100, 50, K] gives 15, no
\* total is negative, and the total depends on the order of the balls.  The
\* prize Split/Steal opens with is calculate_total of the win-list in the
\* order of the picks.
C23_PrizeIsLeftFold ==
    /\ TotalsAsFolded
    /\ (CallAllowed(TheGame) /\ Now.game.state.kind = "BinWinState")
       => \A p \in Seated(Now) : \A b \in BallIds(Now.game) :
              LET r == Game_on_pick(Now, p, b)
              IN  (~r.fault /\ r.w.game.state.kind = "SplitStealState")
                  => /\ r.w.game.state.prize = FoldLeft(WinListAfter(Now, b), 0)
                     /\ r.w.game.state.prize >= 0

\* Split/Steal has just opened on a win-list with a killer ahead of a cash
\* ball, and its prize differs from the prize of the list in another order
C23_Witness_KillerInWinList ==
    LET g == games[TheGame]
        n == Len(g.channel_messages)
    IN  /\ g.state.kind = "SplitStealState"
        /\ n >= 2
        /\ g.channel_messages[n][1] = "round4.announce"
        /\ g.channel_messages[n - 1][1] = "round3.final_win"
        /\ LET win == g.channel_messages[n - 1][2]
           IN  /\ g.channel_messages[n][2] = calculate_total(win)
               /\ g.state.prize = calculate_total(win)
               /\ \E i, j \in DOMAIN win :
                      /\ i < j /\ win[i] = KillerBall /\ win[j] # KillerBall
                      /\ calculate_total([win EXCEPT ![i] = win[j], ![j] = win[i]])
                             # calculate_total(win)

(***************************************************************************)
(* Who learns the hidden balls.                                            *)
(***************************************************************************)
\* the call that ended as r dealt a round: each seated player has one
\* private message, with that player's hidden balls; nobody else has any;
\* the broadcast of the deal lists the shown balls
DealtInPrivate(r) ==
    LET g == r.w.game
        n == Len(g.channel_messages)
    IN  /\ \A p \in Seated(r.w) :
               /\ p \in DOMAIN g.dms
               /\ g.dms[p] = <<get_msg("round1_2.hidden", <<g.state.hidden_balls[p]>>)>>
        /\ \A q \in DOMAIN g.dms \ Seated(r.w) : g.dms[q] = <<>>
        /\ n > 0
        /\ g.channel_messages[n] =
               get_msg("round1_2.announce",
                       <<g.state.number,
                         Len(Tokens(g.state, g.players[1])),
                         Len(g.state.hidden_balls[g.players[1]]),
                         Len(g.state.shown_balls[g.players[1]]),
                         ball_list(g.players, g.state.shown_balls)>>)

\* r deals a round when it leaves a round other than the one it was made in
DealsRound(r) ==
    /\ ~r.fault
    /\ IsHiddenShown(r.w.game.state)
    /\ r.w.game.state.kind # Now.game.state.kind

\* the worlds that differ from w in the hidden balls of the seated players
\* other than p: each of them has the hidden balls of the next of them, or
\* has its own in reverse
OtherDeals(w, p) ==
    LET hidden == w.game.state.hidden_balls
        others == SelectSeq(w.game.players, LAMBDA x : x # p)
        next(x) == others[((IndexOf(others, x) + 1) % Len(others)) + 1]
        reverse(balls) == [i \in DOMAIN balls |-> balls[Len(balls) + 1 - i]]
    IN  {[w EXCEPT !.game.state.hidden_balls =
              [x \in DOMAIN hidden |-> IF x \in Range(others) THEN hidden[next(x)]
                                       ELSE hidden[x]]],
         [w EXCEPT !.game.state.hidden_balls =
              [x \in DOMAIN hidden |-> IF x \in Range(others) THEN reverse(hidden[x])
                                       ELSE hidden[x]]]}

\* C24: in rounds 1 and 2 a player's hidden balls are told to that player
\* only.  The call that deals a round queues one private message for each
\* seated player, in that player's queue, with that player's hidden balls,
\* and none for anybody else, and broadcasts the shown balls.  What a vote
\* that eliminates nobody broadcasts, queues in private and answers is the
\* same whatever the hidden balls are, and what a player is answered on
\* viewing is the same whatever the hidden balls of the others are.
C24_HiddenBallsPrivate ==
    CallAllowed(TheGame)
    => \A p \in Players :
           /\ LET r == Game_on_join(Now, p)
              IN  DealsRound(r) => DealtInPrivate(r)
           /\ \A forced \in BOOLEAN :
                  LET r == Game_on_leave(Now, p, forced)
                  IN  DealsRound(r) => DealtInPrivate(r)
           /\ \A t \in Players :
                  LET r == Game_on_vote(Now, p, t)
                  IN  /\ DealsRound(r) => DealtInPrivate(r)
                      /\ (/\ IsHiddenShown(Now.game.state)
                          /\ p \in Seated(Now)
                          /\ ~r.fault
                          /\ r.w.game.players = Now.game.players)
                         => \A other \in OtherDeals(Now, None) :
                                LET s == Game_on_vote(other, p, t)
                                IN  /\ s.w.game.channel_messages = r.w.game.channel_messages
                                    /\ s.w.game.dms = r.w.game.dms
                                    /\ s.response = r.response
           /\ (IsHiddenShown(Now.game.state) /\ p \in Seated(Now))
              => LET answer == Game_on_view_balls(Now, p).response
                 IN  \A other \in OtherDeals(Now, p) :
                         Game_on_view_balls(other, p).response = answer

\* round 2 has just been dealt: each of the 3 seated players has one private
\* message waiting, the eliminated player none
C24_Witness_RoundTwoDealt ==
    LET g == games[TheGame]
    IN  /\ g.state.kind = "ThreePlayerState"
        /\ Len(g.players) = 3
        /\ \A p \in Range(g.players) : Len(g.dms[p]) = 1
        /\ \E q \in DOMAIN g.dms \ Range(g.players) : g.dms[q] = <<>>

(***************************************************************************)
(* The outboxes.                                                           *)
(***************************************************************************)
IsPrefix(a, b) == Len(a) <= Len(b) /\ SubSeq(b, 1, Len(a)) = a

\* the call that ended as r, made in w, only added to the queues
OnlyAppends(w, r) ==
    LET after == r.w.game
    IN  /\ IsPrefix(w.game.channel_messages, after.channel_messages)
        /\ \A p \in DOMAIN w.game.dms :
               /\ p \in DOMAIN after.dms
               /\ IsPrefix(w.game.dms[p], after.dms[p])

\* a read of queue (value being what the read returned and left the queue
\* it left behind) took the first message, or found none
ReadsFirst(queue, value, left) ==
    IF queue = <<>> THEN value = <<>> /\ left = <<>>
    ELSE value = <<queue[1]>> /\ left = Tail(queue)

\* the queue of p in dms, a player without an entry having nothing queued
QueueOf(dms, p) == IF p \in DOMAIN dms THEN dms[p] ELSE <<>>

\* C25: the outboxes are first-in first-out queues.  Every call of the
\* game made while a message is still queued (an empty queue is a prefix
\* of anything) leaves what the broadcast queue and each private queue
\* held as a prefix of what they hold after it.  get_channel_message and get_dm return the first queued message and
\* take it off its queue, one message a call and so in the order of
\* queueing, and return nothing once the queue is empty; they change
\* nothing else of the session, and a read of one player's queue leaves the
\* queues of the others as they were.
C25_QueuesAreFifo ==
    LET w == Now
        g == w.game
    IN  /\ Queued(g) > 0
           => \A p \in Players :
                  /\ OnlyAppends(w, Game_on_join(w, p))
                  /\ \A t \in Players : OnlyAppends(w, Game_on_vote(w, p, t))
                  /\ OnlyAppends(w, Game_on_view_balls(w, p))
                  /\ \A b \in BallIds(g) : OnlyAppends(w, Game_on_pick(w, p, b))
                  /\ OnlyAppends(w, Game_on_split(w, p))
                  /\ OnlyAppends(w, Game_on_steal(w, p))
                  /\ \A forced \in BOOLEAN : OnlyAppends(w, Game_on_leave(w, p, forced))
        /\ LET r == get_channel_message(g)
           IN  /\ ReadsFirst(g.channel_messages, r.value, r.game.channel_messages)
               /\ [r.game EXCEPT !.channel_messages = g.channel_messages] = g
               /\ (Len(g.channel_messages) >= 2
                   => get_channel_message(r.game).value = <<g.channel_messages[2]>>)
        /\ \A p \in Players :
               LET r == get_dm(g, p)
               IN  /\ ReadsFirst(QueueOf(g.dms, p), r.value, QueueOf(r.game.dms, p))
                   /\ [r.game EXCEPT !.dms = g.dms] = g
                   /\ \A q \in Players \ {p} : QueueOf(r.game.dms, q) = QueueOf(g.dms, q)
                   /\ (Len(QueueOf(g.dms, p)) >= 2
                       => get_dm(r.game, p).value = <<g.dms[p][2]>>)

\* a delivery under way: the broadcast queue has been read to its end and
\* so has the queue of one player, while another player's message waits
C25_Witness_PartlyDelivered ==
    LET g == games[TheGame]
    IN  /\ g.channel_messages = <<>>
        /\ get_channel_message(g).value = <<>>
        /\ \E p, q \in DOMAIN g.dms :
               /\ g.dms[p] = <<>>
               /\ g.dms[q] # <<>>
               /\ p \in Range(g.players)
               /\ IsHiddenShown(g.state)
               /\ g.state.votes = <<>>

(***************************************************************************)
(* Calls a state has no use for.                                           *)
(***************************************************************************)
\* the call that ended as r was turned down with message_id and changed
\* nothing
TurnedDownAs(r, message_id) ==
    /\ ~r.fault
    /\ r.response = <<message_id>>
    /\ IsRejection(r.response)
    /\ r.w = Now

\* C26: a call the current state has no use for is rejected and changes
\* nothing: vote, view, pick, split and steal while Waiting; join outside
\* Waiting, so that a session that has started seats nobody new; vote
\* outside rounds 1 and 2; pick outside Bin/Win; split and steal outside
\* Split/Steal.
C26_UnfitCallsRejected ==
    CallAllowed(TheGame)
    => LET kind == Now.game.state.kind
       IN  \A p \in Players :
               /\ kind # "WaitingState"
                  => /\ TurnedDownAs(Game_on_join(Now, p), "game.err.not_joinable")
                     /\ Seated(Game_on_join(Now, p).w) = Seated(Now)
               /\ ~IsHiddenShown(Now.game.state)
                  => \A t \in Players :
                         TurnedDownAs(Game_on_vote(Now, p, t), "game.err.not_votable")
               /\ kind = "WaitingState"
                  => TurnedDownAs(Game_on_view_balls(Now, p), "game.err.not_viewable")
               /\ kind # "BinWinState"
                  => \A b \in BallIds(Now.game) :
                         TurnedDownAs(Game_on_pick(Now, p, b), "game.err.not_pickable")
               /\ kind # "SplitStealState"
                  => /\ TurnedDownAs(Game_on_split(Now, p), "game.err.not_split_steal")
                     /\ TurnedDownAs(Game_on_steal(Now, p), "game.err.not_split_steal")

\* Bin/Win with two seats of the four taken and a player who is in no game:
\* that player's join is turned down
C26_Witness_NoReplacement ==
    /\ CallAllowed(TheGame)
    /\ Now.game.state.kind = "BinWinState"
    /\ Len(Now.game.players) = 2
    /\ \E p \in Players :
           /\ ~is_busy(Now, p)
           /\ Game_on_join(Now, p).response = get_msg("game.err.not_joinable", <<>>)

(***************************************************************************)
(* The course of a game.                                                   *)
(***************************************************************************)
\* the place of a state in the course of a game
Rank(state) ==
    CASE state.kind = "WaitingState" -> 0
      [] state.kind = "FourPlayerState" -> 1
      [] state.kind = "ThreePlayerState" -> 2
      [] state.kind = "BinWinState" -> 3
      [] state.kind = "SplitStealState" -> 4
      [] state.kind = "FinishedState" -> 5

\* C27: a session with four seated players that nobody leaves, whose
\* ballots get their votes and do not tie for ever, whose player on turn
\* picks and whose finalists choose, goes from round 1 to round 2, Bin/Win
\* and Split/Steal in that order, a step at a time and never back, and is
\* finished in the end.
C27_FullGameFinishes ==
    /\ [][Rank(games'[TheGame].state) \in {Rank(games[TheGame].state),
                                           Rank(games[TheGame].state) + 1}]_vars
    /\ (games[TheGame].state.kind = "FourPlayerState") ~> is_finished(games[TheGame])

(***************************************************************************)
(* The machine pool.                                                       *)
(***************************************************************************)
\* the pool is 100 cash balls with positive values in strictly ascending
\* order, and so pairwise distinct
PoolWellFormed ==
    /\ Len(generate_pool) = 100
    /\ \A i \in DOMAIN generate_pool :
           /\ generate_pool[i] # KillerBall
           /\ generate_pool[i] > 0
           /\ get_cash_value(generate_pool[i]) = generate_pool[i]
    /\ \A i \in 1 .. Len(generate_pool) - 1 : generate_pool[i] < generate_pool[i + 1]
    /\ \A i, j \in DOMAIN generate_pool : i # j => generate_pool[i] # generate_pool[j]

\* C28: the generated machine pool has exactly 100 cash balls, their values
\* positive, pairwise distinct and strictly ascending, and every new session
\* starts with this pool, whatever other sessions have drawn from theirs.
C28_PoolOfNewSession ==
    /\ PoolWellFormed
    /\ \A g \in DOMAIN games :
           games[g].state.kind = "WaitingState" => games[g].machine_balls = generate_pool
    /\ \A g \in Sessions \ DOMAIN games : \A host \in Players :
           LET r == start_game(current_game, rng, g, host)
           IN  r.made => /\ r.w.game.machine_balls = generate_pool
                         /\ r.w.game.state = WaitingState

\* the second session waits with the whole pool while the first, which has
\* drawn the balls of both rounds, is still played
C28_Witness_SecondSessionFullPool ==
    /\ DOMAIN games = Sessions
    /\ games[TheGame + 1].state.kind = "WaitingState"
    /\ games[TheGame + 1].machine_balls = generate_pool
    /\ Len(games[TheGame].machine_balls) = 100 - 12 - 2
    /\ ~is_finished(games[TheGame])

(***************************************************************************)
(* The turn in Bin/Win when a player leaves.                               *)
(***************************************************************************)
\* C29: in Bin/Win with two seated players, when the player on turn leaves,
\* the turn pointer is set to the first seat left, the player in it is
\* announced as the one to pick on the broadcast queue, and that player's
\* next pick with a valid ball id is accepted.
C29_PickerLeaves ==
    (/\ CallAllowed(TheGame)
     /\ Now.game.state.kind = "BinWinState"
     /\ Len(Now.game.players) = 2)
    => /\ \E p \in Seated(Now) : OnTurn(Now, p)
       /\ \A p \in Seated(Now) : \A forced \in BOOLEAN :
              OnTurn(Now, p)
              => LET q == CHOOSE q \in Seated(Now) : q # p
                     state == Now.game.state
                     r == Game_on_leave(Now, p, forced)
                 IN  /\ ~r.fault
                     /\ ~IsRejection(r.response)
                     /\ r.w.game.players = <<q>>
                     /\ r.w.game.state = [state EXCEPT !.player_id = 0]
                     /\ OnTurn(r.w, q)
                     /\ r.w.game.channel_messages
                            = <<get_msg(pick_msg(state.action),
                                        <<q, Len(state.available_balls)>>)>>
                     /\ \A b \in 1 .. Len(state.available_balls) :
                            LET s == Game_on_pick(r.w, q, b)
                            IN  /\ ~s.fault
                                /\ s.response = get_msg(picked_msg(state.action),
                                                        <<q, state.available_balls[b]>>)
                                /\ \/ s.w.game.state.kind = "SplitStealState"
                                   \/ Len(s.w.game.state.available_balls)
                                          = Len(state.available_balls) - 1

\* the player on turn has left a Bin/Win in which no ball was picked yet:
\* one finalist is seated, and the announcement of that player's turn waits
\* on the broadcast queue
C29_Witness_PickerGone ==
    LET g == games[TheGame]
    IN  /\ g.state.kind = "BinWinState"
        /\ Len(g.players) = 1
        /\ Len(g.state.available_balls) = 11
        /\ g.state.player_id = 0
        /\ g.channel_messages = <<get_msg("round3.pick.bin", <<g.players[1], 11>>)>>

\* C30: while the session is in Bin/Win with a seated player, the turn
\* pointer names a seat (0 <= pointer < number of seated players), whatever
\* picks and leaves came before, the leave of the player who is not on turn
\* among them; so no pick of a seated player ends in a fault.
C30_TurnPointerNamesSeat ==
    (Now.game.state.kind = "BinWinState" /\ Len(Now.game.players) >= 1)
    => /\ 0 <= Now.game.state.player_id
       /\ Now.game.state.player_id < Len(Now.game.players)
       /\ CallAllowed(TheGame)
          => \A p \in Seated(Now) : \A b \in BallIds(Now.game) :
                 ~Game_on_pick(Now, p, b).fault

(***************************************************************************)
(* The pick pool of Bin or Win.                                            *)
(***************************************************************************)
\* the states of the generator
GeneratorStates == 0 .. 99

\* stand-ins for the leftover tokens, each one told apart from the others
\* and from a killer
MarkedLeftover == [k \in 1 .. FinalPool - 1 |-> k]

\* the position (from 1) of the killer minted by BinWinState.__init__ in the pick pool
\* built in w from the leftover tokens, the generator being in state x
FreshKillerAt(w, leftover, first_player, x) ==
    IndexOf(BinWinState_init([w EXCEPT !.rng = x], leftover, first_player).state.available_balls,
            KillerBall) + 1

\* C31: on entry to Bin/Win the freshly minted killer is shuffled together
\* with the leftover tokens: for each of the 11 positions of the pick pool
\* there is an outcome of the shuffle that puts the fresh killer there, so
\* it does not always lie at the same index.
C31_FreshKillerAnywhere ==
    (CallAllowed(TheGame) /\ Now.game.state.kind = "ThreePlayerState")
    => \A first \in Seated(Now) :
           /\ \A i \in 1 .. FinalPool : \E x \in GeneratorStates :
                  FreshKillerAt(Now, MarkedLeftover, first, x) = i
           /\ \E x, y \in GeneratorStates :
                  FreshKillerAt(Now, MarkedLeftover, first, x)
                      # FreshKillerAt(Now, MarkedLeftover, first, y)

(***************************************************************************)
(* Ballots that tie for ever.                                              *)
(***************************************************************************)
\* the world once the caller's delivery loop has emptied the outboxes
Delivered(w) ==
    [w EXCEPT !.game.channel_messages = <<>>,
              !.game.dms = [p \in DOMAIN w.game.dms |-> <<>>]]

RECURSIVE VotesInTurn(_, _, _, _)
\* the seated players from seat i on vote in seat order, each for the
\* target f gives, the outboxes being delivered after every call; ok tells
\* that every vote was accepted and none ended in a fault
VotesInTurn(w, seats, i, f) ==
    IF i > Len(seats) THEN [w |-> w, ok |-> TRUE]
    ELSE LET r == Game_on_vote(w, seats[i], f[seats[i]])
         IN  IF r.fault \/ r.response # get_msg("round1_2.voted_response", <<>>)
             THEN [w |-> r.w, ok |-> FALSE]
             ELSE VotesInTurn(Delivered(r.w), seats, i + 1, f)

\* the pending ballot of a round that has all its players
BallotOpens(w) ==
    /\ IsHiddenShown(w.game.state)
    /\ w.game.state.votes = <<>>
    /\ Len(w.game.players) = (IF w.game.state.kind = "FourPlayerState" THEN 4 ELSE 3)

\* C32: voting in a round need not end.  Whenever a ballot of a round opens,
\* the seated players can each cast a vote that is accepted such that the
\* completed ballot ties, nobody is eliminated, and the session (its
\* messages delivered) is back in the very state the ballot opened in: the
\* same ballot can be held again, for ever, every player voting in every
\* ballot, and without a leave the round never advances.  (The stats record
\* of the round, which nothing reads, is not part of the state.)
C32_TiesCanRecurForever ==
    (CallAllowed(TheGame) /\ BallotOpens(Now))
    => \E f \in [Seated(Now) -> Now.game.state.vote_candidates] :
           LET r == VotesInTurn(Now, Now.game.players, 1, f)
           IN  /\ r.ok
               /\ r.w.game.players = Now.game.players
               /\ r.w.game.state.kind = Now.game.state.kind
               /\ r.w = Now

\* the three players of round 2 have each voted for another one, one vote
\* each: the tie has been announced, the ballot is cleared and all three
\* are candidates again
C32_Witness_ThreeWayTie ==
    LET g == games[TheGame]
    IN  /\ g.state.kind = "ThreePlayerState"
        /\ Len(g.players) = 3
        /\ g.state.votes = <<>>
        /\ g.state.vote_candidates = Range(g.players)
        /\ Len(g.channel_messages) = 2
        /\ g.channel_messages[1][1] = "round1_2.vote_results"
        /\ Cardinality(Range(g.channel_messages[1][2])) = 3
        /\ g.channel_messages[2] = get_msg("round1_2.tie", <<>>)

(***************************************************************************)
(* The allocation of a round.                                              *)
(***************************************************************************)
RECURSIVE AllocationUpTo(_, _)
AllocationUpTo(state, n) ==
    IF n = 0 THEN <<>>
    ELSE AllocationUpTo(state, n - 1)
             \o (IF n \in DOMAIN state.shown_balls THEN Tokens(state, n) ELSE <<>>)

\* every ball a round has allocated, player after player
Allocation(state) == AllocationUpTo(state, NumPlayers)

\* the players a round is dealt to, and the hidden and fresh killer balls
RoundPlayers(state) == IF state.kind = "FourPlayerState" THEN PLAYER_COUNT ELSE PLAYER_COUNT - 1

RoundHidden(state) == IF state.kind = "FourPlayerState" THEN FourPlayer_HIDDEN_COUNT ELSE ThreePlayer_HIDDEN_COUNT

RoundKillers(state) == IF state.kind = "FourPlayerState" THEN FourPlayer_KILLER_COUNT ELSE ThreePlayer_KILLER_COUNT

\* the allocation of the round that g is in gives every player it was dealt
\* to, the seated ones among them, the shown and hidden balls of the round,
\* and holds no cash ball twice
AllocationWhole(g) ==
    LET state == g.state
        all == Allocation(state)
    IN  /\ DOMAIN state.shown_balls = DOMAIN state.hidden_balls
        /\ Range(g.players) \subseteq DOMAIN state.shown_balls
        /\ Cardinality(DOMAIN state.shown_balls) = RoundPlayers(state)
        /\ \A p \in DOMAIN state.shown_balls :
               /\ Len(state.shown_balls[p]) = FourPlayer_SHOWN_COUNT
               /\ Len(state.hidden_balls[p]) = RoundHidden(state)
        /\ \A v \in Range(all) \ {KillerBall} : Count(all, v) = 1

\* the cash balls among balls
CashOf(balls) == Range(balls) \ {KillerBall}

\* a step that constructs a round allocates exactly the balls in play: those
\* of the players who stay from the round before, the cash balls drawn from
\* the machine and the new killers (as many balls, as many killers, the
\* same cash balls); a step within a round leaves the allocation alone
AllocationStep ==
    LET g == games[TheGame]
        h == games'[TheGame]
        kept == IF IsHiddenShown(g.state) THEN AllTokens(g.state, h.players) ELSE <<>>
    IN  /\ (IsHiddenShown(h.state) /\ h.state.kind # g.state.kind)
           => /\ Len(h.players) = RoundPlayers(h.state)
              /\ DOMAIN h.state.shown_balls = Range(h.players)
              /\ Len(Allocation(h.state))
                     = Len(kept) + (Len(g.machine_balls) - Len(h.machine_balls))
                           + RoundKillers(h.state)
              /\ Count(Allocation(h.state), KillerBall)
                     = Count(kept, KillerBall) + RoundKillers(h.state)
              /\ CashOf(Allocation(h.state))
                     = CashOf(kept) \cup (Range(g.machine_balls) \ Range(h.machine_balls))
        /\ (IsHiddenShown(g.state) /\ h.state.kind = g.state.kind)
           => /\ h.state.shown_balls = g.state.shown_balls
              /\ h.state.hidden_balls = g.state.hidden_balls

\* C33: a round, from its construction until it ends, has allocated to each
\* of its players exactly the shown and hidden balls of the round (2 and 2
\* in round 1, 2 and 3 in round 2), and the allocation partitions the balls
\* in play: at construction it holds exactly the balls kept from the round
\* before, the cash balls drawn and the new killers, none is left over, and
\* no cash ball is held twice (so each is held by one player in one list);
\* no step within the round changes it.
C33_AllocationPartitions ==
    /\ [](IsHiddenShown(games[TheGame].state) => AllocationWhole(games[TheGame]))
    /\ [][AllocationStep]_vars

\* round 2 is under way: one of its three players has voted, and the 15
\* balls dealt at its construction are still allocated
C33_Witness_RoundTwoUnderWay ==
    LET g == games[TheGame]
    IN  /\ g.state.kind = "ThreePlayerState"
        /\ Len(g.players) = 3
        /\ Len(g.state.votes) = 1
        /\ Len(Allocation(g.state)) = 15
        /\ Count(Allocation(g.state), KillerBall) >= 1

(***************************************************************************)
(* The machine.                                                            *)
(***************************************************************************)
\* the balls in play in a session: allocated in a round, or to pick from
\* and won in Bin or Win
InPlay(g) ==
    IF IsHiddenShown(g.state) THEN Allocation(g.state)
    ELSE IF g.state.kind = "BinWinState" THEN g.state.available_balls \o g.state.win_balls
    ELSE <<>>

\* the balls the machine holds once the rounds up to the state of g are dealt
MachineSize(g) ==
    IF g.state.kind = "WaitingState" THEN 100
    ELSE IF g.state.kind = "FourPlayerState" THEN 100 - FourPlayer_CASH_BALL_COUNT
    ELSE 100 - FourPlayer_CASH_BALL_COUNT - ThreePlayer_CASH_BALL_COUNT

\* the machine of g holds balls of the full pool, in the ascending order of
\* the pool and so none twice; it has the size for the rounds dealt (a session cancelled
\* while waiting keeps the full pool); no cash ball in play is in the
\* machine, or in play twice
MachineDrawn(g) ==
    LET play == InPlay(g)
    IN  /\ Range(g.machine_balls) \subseteq Range(generate_pool)
        /\ \A i \in 1 .. Len(g.machine_balls) - 1 :
               g.machine_balls[i] < g.machine_balls[i + 1]
        /\ IF g.state.kind = "FinishedState"
           THEN Len(g.machine_balls) \in {100, 86}
           ELSE Len(g.machine_balls) = MachineSize(g)
        /\ CashOf(play) \cap Range(g.machine_balls) = {}
        /\ \A v \in CashOf(play) : Count(play, v) = 1

\* a step takes balls out of the machine only to deal a round, and puts
\* none in
MachineStep ==
    LET g == games[TheGame]
        h == games'[TheGame]
    IN  \/ h.machine_balls = g.machine_balls
        \/ /\ Range(h.machine_balls) \subseteq Range(g.machine_balls)
           /\ Len(h.machine_balls) < Len(g.machine_balls)
           /\ IsHiddenShown(h.state)
           /\ h.state.kind # g.state.kind
           /\ Range(g.machine_balls) \ Range(h.machine_balls) \subseteq CashOf(InPlay(h))

\* C34: the machine only shrinks and is drawn from without replacement.  It
\* holds 100 balls from the creation of the session until round 1 is dealt,
\* 88 once round 1 is dealt and 86 once round 2 is dealt; only the step that
\* deals a round changes it (no vote, pick, split, steal, rejected call or
\* delivery does, and a leave only by dealing round 2), and the balls it
\* loses are then in play; a cash ball in play is not in the machine and
\* not in play twice, and no ball ever comes back to the machine.
C34_MachineOnlyShrinks ==
    /\ [](MachineDrawn(games[TheGame]))
    /\ [][MachineStep]_vars

\* Bin or Win is under way with a ball won, and the machine is left with
\* the 86 balls that neither round drew
C34_Witness_BothRoundsDrawn ==
    LET g == games[TheGame]
    IN  /\ g.state.kind = "BinWinState"
        /\ Len(g.state.win_balls) = 1
        /\ Len(g.machine_balls) = 86
        /\ CashOf(InPlay(g)) # {}
        /\ CashOf(InPlay(g)) \cap Range(g.machine_balls) = {}

(***************************************************************************)
(* The payouts.                                                            *)
(***************************************************************************)
RECURSIVE ResultsSum(_, _)
\* the sum of the results of the players 1 .. n
ResultsSum(results, n) ==
    IF n = 0 THEN 0
    ELSE ResultsSum(results, n - 1) + (IF n \in DOMAIN results THEN results[n] ELSE 0)

\* the call that ended as r, made in Split/Steal, resolved the session with
\* seats seated at that moment: the payouts are 0, half the prize rounded
\* down or the prize, they sum to the prize at most, and only a player of
\* seats is paid
PaidWithinPrize(r, seats) ==
    (~r.fault /\ r.w.game.state.kind = "FinishedState")
    => LET prize == Now.game.state.prize
           results == r.w.game.results
       IN  /\ ResultsSum(results, NumPlayers) <= prize
           /\ \A p \in DOMAIN results : results[p] \in {0, prize \div 2, prize}
           /\ \A p \in DOMAIN results \ seats : results[p] = 0

\* C35: whichever call resolves Split/Steal (the choice that completes the
\* choices, or a leave), the payouts it writes sum to no more than the
\* prize computed on entry to Split/Steal, each payout is 0, floor(prize/2)
\* or the prize, and a player who is not seated at the moment of resolution,
\* eliminated or gone earlier or leaving with this very call, is paid 0.
\* Until then every result is 0.
C35_PayoutsWithinPrize ==
    /\ ~is_finished(Now.game) => \A p \in DOMAIN Now.game.results : Now.game.results[p] = 0
    /\ (CallAllowed(TheGame) /\ Now.game.state.kind = "SplitStealState")
       => \A p \in Players :
              /\ PaidWithinPrize(Game_on_split(Now, p), Seated(Now))
              /\ PaidWithinPrize(Game_on_steal(Now, p), Seated(Now))
              /\ \A forced \in BOOLEAN :
                     PaidWithinPrize(Game_on_leave(Now, p, forced), Seated(Now) \ {p})

\* a leave has resolved Split/Steal with one finalist seated (the payout is
\* the only message queued): the whole prize went to that finalist, and the
\* other players of the session, eliminated or gone, have 0
C35_Witness_LeaverUnpaid ==
    LET g == games[TheGame]
        n == Len(g.channel_messages)
    IN  /\ g.state.kind = "FinishedState"
        /\ n = 1
        /\ g.channel_messages[n][1] = "round4.only_player"
        /\ g.channel_messages[n][3] > 0
        /\ ResultsSum(g.results, NumPlayers) = g.channel_messages[n][3]
        /\ g.results[g.channel_messages[n][2]] = g.channel_messages[n][3]
        /\ Cardinality(DOMAIN g.results) = PLAYER_COUNT

(***************************************************************************)
(* The seats of each state.                                                *)
(***************************************************************************)
\* the numbers of seated players the state of g allows
SeatCounts(g) ==
    IF g.state.kind = "WaitingState" THEN 1 .. PLAYER_COUNT - 1
    ELSE IF g.state.kind = "FourPlayerState" THEN {PLAYER_COUNT}
    ELSE IF g.state.kind = "ThreePlayerState" THEN {PLAYER_COUNT - 1}
    ELSE IF g.state.kind = "BinWinState" THEN {1, 2}
    ELSE IF g.state.kind = "SplitStealState" THEN {1, 2}
    ELSE {0}

\* C36: between operations the number of seated players fits the state: 1
\* to 3 while waiting, 4 in round 1, 3 in round 2, 1 or 2 in Bin/Win and in
\* Split/Steal, 0 once finished; the list of players holds nobody twice and
\* never more than 4.
C36_SeatsFitState ==
    LET g == games[TheGame]
    IN  /\ Len(g.players) \in SeatCounts(g)
        /\ Cardinality(Range(g.players)) = Len(g.players)
        /\ Len(g.players) <= PLAYER_COUNT
=============================================================================
